---------------------------- MODULE Spec2Model ----------------------------
(***************************************************************************)
(* A model of the store-listing generator: the AI-response recovery layer  *)
(* (parseJSON, retry, analyzeProjectInput, generateBrandIdentity,          *)
(* generateImageFromPrompt, the free-text generators) of                   *)
(* services/geminiService.ts, the App's debounced save and its deletion of *)
(* projects, projectService, the short descriptions, the logo variants of  *)
(* BrandView, the positions, the headline, the AI copy and the batch       *)
(* export of the ScreenshotStudio component, and the package of            *)
(* FinalizeView.                                                           *)
(*                                                                         *)
(* Texts are sequences of one-character strings.  Every subsystem has its  *)
(* own group of variables and its own specification; a specification       *)
(* leaves the other groups at their idle values.                           *)
(***************************************************************************)
EXTENDS Integers, Sequences, FiniteSets, TLC

VARIABLES
    \* ---- parseJSON (one call) ----
    text,        \* the argument: a sequence of characters, or Undefined
    clean,       \* the local `clean`
    ppc,         \* position inside parseJSON
    parsed,      \* the returned value (a JSON tree) or NoValue
    perror,      \* the error thrown: "none", "empty" or "malformed"
    \* ---- retry (one call) ----
    rpc,         \* "idle", "call" (fn is about to run), "waiting" (the timer is set),
                 \* "returned" or "thrown"
    retries,     \* the parameter `retries` of the running invocation
    delay,       \* the parameter `delay` of the running invocation
    calls,       \* how many times fn has been invoked
    waits,       \* the delays waited for, in order
    outcomes,    \* what each invocation of fn did, in order
    settled,     \* the outcome the promise of retry settled with
    invocations, \* how many times fn has been invoked since the caller started
    \* ---- analyzeProjectInput (one call) ----
    apc,         \* "idle", "loop", "awaiting", "break", "returned" or "thrown"
    attempts,    \* the local `attempts`
    hints,       \* for each request issued: did it carry the "previous output" hint
    rawResponse, \* the local `rawResponse`
    attemptLog,  \* how each attempt ended: "valid", "invalid", "malformed" or "error"
    junkFlagged, \* a response received so far carried isJunk = true
    aresult,     \* the AnalysisResult returned
    aerror,      \* the message of the Error thrown
    \* ---- AnalysisView.handleAnalyze ----
    description, \* the length of the text the user entered
    isAnalyzing,
    error,       \* the component's `error` state
    completed,   \* what onAnalysisComplete was called with
    \* ---- ScreenshotStudio (Layout.tsx) ----
    screenshots, \* the three collections of assets
    smallTiles,
    marquees,
    activeTab,
    activeScreenshotId,
    edits,       \* how many edits of an asset have been made
    lastEdit,    \* the handler that made the last edit, and the tab it ran on
    \* ---- ScreenshotStudio.handleBatchRenderAndComplete ----
    isBatchProcessing,
    bpc,         \* "idle", "tab", "item", "capture", "capturing", "finish" or "done"
    lists,       \* the three collections the handler closed over, in processing order
    listNo,      \* which of them processList is running on
    itemNo,      \* the position of `item` in it
    results,     \* the `results` of each processList call so far
    inFlight,    \* how many toJpeg calls have not settled
    captureLog,  \* every capture, in order: the tab, the item and how it ended
    batchSignals, \* the handler's calls of onStatusChange and onComplete
    \* ---- App: the projects and their debounced save ----
    projects,    \* the in-memory projects: for each id, how many updates it has had
    currentProjectId,
    timers,      \* the setTimeout callbacks that have not run, each with the
                 \* activeProject its closure holds
    saveTimeoutRef,
    timerCount,  \* how many timers have been set
    store,       \* the store's copy of each project
    writes,      \* the writes the store has taken, in order
    storeFailed, \* a write has failed (saveProject only logs it)
    \* ---- BrandView.handleUnifiedGeneration ----
    gpc,         \* "idle", "awaiting" (Promise.all is pending) or "resizing"
    branches,    \* the four generateImageFromPrompt calls: "none", "pending", "ok", "failed"
    iconVariants,
    selectedIconIndex,
    resizedIcons,
    isGeneratingAssets,
    assetError,  \* the component's `error` state
    \* ---- generateBrandIdentity (one call) ----
    ipc,         \* "idle", "parsed" (parseJSON has returned) or "returned"
    parsedColors,
                 \* parsed.colors: for each slot a text or Undefined, or Undefined itself
    identityColors,
                 \* the colors of the BrandIdentity returned
    \* ---- generateImageFromPrompt (one call) ----
    imgpc,       \* "idle", "awaiting" (retry is running), "returned" or "thrown"
    imageUrl,    \* the data URL returned
    imageError,  \* the message of the Error thrown
    \* ---- ScreenshotStudio.renderTextContent (one call) ----
    headline,    \* activeScreenshot.headline
    highlightText,
                 \* activeScreenshot.highlightText, a text or Undefined
    rtpc,        \* "idle", "called", "rendered" or "thrown"
    headlineContent,
                 \* the spans rendered in the headline, in order
    \* ---- FinalizeView.handleDownloadPackage ----
    project,     \* the prop: screenshots, smallTiles, marquees and generatedAssets
    isZipping,
    zip,         \* the files of the JSZip object the running handler filled
    zipSubset,   \* the argument of the running handler
    saved,       \* the archives handed to saveAs, in order
    alerts,      \* how many times the failure alert was shown
    \* ---- projectService: the two stores, given the same operations ----
    localProjects,
                 \* the array under LOCAL_STORAGE_KEY
    remoteRows,  \* the rows of the table `projects`: id, state, updated_at
    dbClock,     \* new Date() of the last operation
    dbOps,       \* how many operations have been made
    \* ---- generateStoreListing, generatePrivacyPolicy, enhancePrivacyPolicy ----
    fpc,         \* "idle", "responded" (retry has returned) or "returned"
    textFn,      \* which of the three functions is running
    responseText,
                 \* response.text: a text or Undefined
    returnedText, \* the text returned to the caller
    \* ---- ShortDescriptionView ----
    sdpc,        \* "idle", "loading", "shown" or "confirmed" (the App has moved on)
    descriptions,
    cards,       \* the cards rendered, in order, each with its top-pick badge
    selectedDesc,
                 \* the component's `selected`
    selectedShortDescription,
                 \* the project's field, set by onDescriptionSelected
    \* ---- analyzeProjectInput: the text of the request ----
    tpc,         \* "idle", "called" or "built"
    input,       \* the argument, as runs of equal characters
    truncatedInput,
    \* ---- App.handleDeleteProject and the saves in flight ----
    supabase,    \* is the remote client configured (else localStorage is used)
    requests,    \* the upserts and deletes sent to the remote table and not yet executed
    persisted,        \* the persisted projects: id -> state
    deleted,
                 \* the ids whose delete the store has executed
    \* ---- ScreenshotStudio.runAnalysis ----
    studioAnalyzing,
                 \* the studio's `isAnalyzing`
    shot,        \* the asset runAnalysis was called with
    shotTab,     \* the activeTab of the render runAnalysis was called in
    analysisOutcome,
                 \* "none", "pending", "resolved" or "rejected"
    \* ---- BrandView: generateIconSizes calls in flight, handleComplete ----
    resizes,     \* the calls of generateIconSizes whose image has not loaded yet
    resizeCount, \* how many have been started
    handedOver
                 \* what onComplete was called with

parseVars == <<text, clean, ppc, parsed, perror>>
retryVars == <<rpc, retries, delay, calls, waits, outcomes, settled, invocations>>
analyzeVars == <<apc, attempts, hints, rawResponse, attemptLog, junkFlagged, aresult, aerror>>
viewVars == <<description, isAnalyzing, error, completed>>

layoutVars ==
    <<screenshots, smallTiles, marquees, activeTab, activeScreenshotId, edits, lastEdit>>

batchVars ==
    <<isBatchProcessing, bpc, lists, listNo, itemNo, results, inFlight, captureLog, batchSignals>>

persistVars ==
    <<projects, currentProjectId, timers, saveTimeoutRef, timerCount, store, writes, storeFailed>>

brandVars ==
    <<gpc, branches, iconVariants, selectedIconIndex, resizedIcons, isGeneratingAssets, assetError>>

identityVars ==
    <<ipc, parsedColors, identityColors>>

imageVars ==
    <<imgpc, imageUrl, imageError>>

renderVars ==
    <<headline, highlightText, rtpc, headlineContent>>

zipVars ==
    <<project, isZipping, zip, zipSubset, saved, alerts>>

storeVars ==
    <<localProjects, remoteRows, dbClock, dbOps>>

freeTextVars ==
    <<fpc, textFn, responseText, returnedText>>

shortDescriptionVars ==
    <<sdpc, descriptions, cards, selectedDesc, selectedShortDescription>>

truncationVars ==
    <<tpc, input, truncatedInput>>

deleteVars ==
    <<supabase, requests, persisted, deleted>>

copyVars ==
    <<studioAnalyzing, shot, shotTab, analysisOutcome>>

resizeVars ==
    <<resizes, resizeCount, handedOver>>

vars == <<parseVars, retryVars, analyzeVars, viewVars, layoutVars, batchVars, persistVars, brandVars, identityVars, imageVars, renderVars, zipVars, storeVars, freeTextVars, shortDescriptionVars, truncationVars, deleteVars, copyVars, resizeVars>>

\* what a step of parseJSON leaves alone
notParse == <<retryVars, analyzeVars, viewVars, layoutVars, batchVars, persistVars, brandVars, identityVars, imageVars, renderVars, zipVars, storeVars, freeTextVars, shortDescriptionVars, truncationVars, deleteVars, copyVars, resizeVars>>
\* what a step of retry, analyzeProjectInput or handleAnalyze leaves alone
notAnalysis == <<parseVars, layoutVars, batchVars, persistVars, brandVars, identityVars, imageVars, renderVars, zipVars, storeVars, freeTextVars, shortDescriptionVars, truncationVars, deleteVars, copyVars, resizeVars>>
\* what a step of generateImageFromPrompt leaves alone, retry apart
notImage ==
    <<parseVars, analyzeVars, viewVars, layoutVars, batchVars, persistVars, brandVars, identityVars, renderVars, zipVars, storeVars, freeTextVars, shortDescriptionVars, truncationVars, deleteVars, copyVars, resizeVars>>
\* what a step of the studio leaves alone
notLayout == <<parseVars, retryVars, analyzeVars, viewVars, batchVars, persistVars, brandVars, identityVars, imageVars, renderVars, zipVars, storeVars, freeTextVars, shortDescriptionVars, truncationVars, deleteVars, copyVars, resizeVars>>
\* what a step of the batch export leaves alone
notBatch == <<parseVars, retryVars, analyzeVars, viewVars, edits, lastEdit, persistVars, brandVars, identityVars, imageVars, renderVars, zipVars, storeVars, freeTextVars, shortDescriptionVars, truncationVars, deleteVars, copyVars, resizeVars>>
\* what a step of the App's projects leaves alone
notPersist ==
    <<parseVars, retryVars, analyzeVars, viewVars, layoutVars, batchVars, brandVars, identityVars, imageVars, renderVars, zipVars, storeVars, freeTextVars, shortDescriptionVars, truncationVars, deleteVars, copyVars, resizeVars>>
\* what a step of the brand view leaves alone
notBrand ==
    <<parseVars, retryVars, analyzeVars, viewVars, layoutVars, batchVars, persistVars, identityVars, imageVars, renderVars, zipVars, storeVars, freeTextVars, shortDescriptionVars, truncationVars, deleteVars, copyVars, resizeVars>>
\* what a step of generateBrandIdentity leaves alone
notIdentity ==
    <<parseVars, retryVars, analyzeVars, viewVars, layoutVars, batchVars, persistVars, brandVars, imageVars, renderVars, zipVars, storeVars, freeTextVars, shortDescriptionVars, truncationVars, deleteVars, copyVars, resizeVars>>
\* what a step of renderTextContent leaves alone
notRender ==
    <<parseVars, retryVars, analyzeVars, viewVars, layoutVars, batchVars, persistVars, brandVars, identityVars, imageVars, zipVars, storeVars, freeTextVars, shortDescriptionVars, truncationVars, deleteVars, copyVars, resizeVars>>
\* what a step of the finalize view leaves alone
notZip ==
    <<parseVars, retryVars, analyzeVars, viewVars, layoutVars, batchVars, persistVars, brandVars, identityVars, imageVars, renderVars, storeVars, freeTextVars, shortDescriptionVars, truncationVars, deleteVars, copyVars, resizeVars>>
\* what an operation of projectService leaves alone
notStore ==
    <<parseVars, retryVars, analyzeVars, viewVars, layoutVars, batchVars, persistVars, brandVars, identityVars, imageVars, renderVars, zipVars, freeTextVars, shortDescriptionVars, truncationVars, deleteVars, copyVars, resizeVars>>
\* what a step of a free-text generator leaves alone
notFreeText ==
    <<parseVars, retryVars, analyzeVars, viewVars, layoutVars, batchVars, persistVars, brandVars, identityVars, imageVars, renderVars, zipVars, storeVars, shortDescriptionVars, truncationVars, deleteVars, copyVars, resizeVars>>
\* what a step of the short-description view leaves alone
notShortDescription ==
    <<parseVars, retryVars, analyzeVars, viewVars, layoutVars, batchVars, persistVars, brandVars, identityVars, imageVars, renderVars, zipVars, storeVars, freeTextVars, truncationVars, deleteVars, copyVars, resizeVars>>
\* what the building of the request text leaves alone
notTruncation ==
    <<parseVars, retryVars, analyzeVars, viewVars, layoutVars, batchVars, persistVars, brandVars, identityVars, imageVars, renderVars, zipVars, storeVars, freeTextVars, shortDescriptionVars, deleteVars, copyVars, resizeVars>>
\* what a step of the project list and its store leaves alone, the App apart
notDelete ==
    <<parseVars, retryVars, analyzeVars, viewVars, layoutVars, batchVars, persistVars, brandVars, identityVars, imageVars, renderVars, zipVars, storeVars, freeTextVars, shortDescriptionVars, truncationVars, copyVars, resizeVars>>

\* what a step of the project list leaves alone
notProjects ==
    <<parseVars, retryVars, analyzeVars, viewVars, layoutVars, batchVars, brandVars, identityVars, imageVars, renderVars, zipVars, storeVars, freeTextVars, shortDescriptionVars, truncationVars, copyVars, resizeVars>>
\* what a step of the studio leaves alone, the copy analysis apart
notCopy ==
    <<parseVars, retryVars, analyzeVars, viewVars, layoutVars, batchVars, persistVars, brandVars, identityVars, imageVars, renderVars, zipVars, storeVars, freeTextVars, shortDescriptionVars, truncationVars, deleteVars, resizeVars>>

\* what a step of runAnalysis leaves alone
notStudio ==
    <<parseVars, retryVars, analyzeVars, viewVars, batchVars, persistVars, brandVars, identityVars, imageVars, renderVars, zipVars, storeVars, freeTextVars, shortDescriptionVars, truncationVars, deleteVars, resizeVars>>
\* what a step of the brand view leaves alone, its resizing apart
notResize ==
    <<parseVars, retryVars, analyzeVars, viewVars, layoutVars, batchVars, persistVars, brandVars, identityVars, imageVars, renderVars, zipVars, storeVars, freeTextVars, shortDescriptionVars, truncationVars, deleteVars, copyVars>>
\* what a step of the variant selection leaves alone
notVariants ==
    <<parseVars, retryVars, analyzeVars, viewVars, layoutVars, batchVars, persistVars, identityVars, imageVars, renderVars, zipVars, storeVars, freeTextVars, shortDescriptionVars, truncationVars, deleteVars, copyVars>>
----------------------------------------------------------------------------
(* Bounds *)

\* longest chain of nested containers in a generated JSON text
MaxDepth == 3
\* most closing braces/brackets cut off the end of a generated text
MaxMissing == 3
\* most hex characters following a #RRGGBB token in a generated text
MaxExtraHex == 6
\* longest free-form string body in a generated JSON text
MaxBodyLen == 2
\* how many edits (position patches, template switches) the studio model follows
MaxEdits == 2
\* the longest collection the batch export is run on
MaxListLen == 2
\* how many save timers the App sets in a run
MaxTimers == 4
\* how many color slots of a response hold something else than a #RRGGBB value
MaxOddSlots == 2
\* the longest headline and the longest highlight text rendered
MaxHeadlineLen == 3
MaxHighlightLen == 2
\* how many packages are downloaded in a run
MaxDownloads == 2
\* how many operations are made on the stores of projectService
MaxStoreOps == 4
\* how many candidates a short-description response holds
MaxCandidates == 3
\* how many runs of equal characters an input text holds
MaxRuns == 2
\* how many variants are selected in succession
MaxSelections == 3

----------------------------------------------------------------------------
(* Characters and texts *)

QUOTE == "\""
NL == "\n"
\* the backquote character (the lexer accepts no backquote inside a string)
BT == "backquote"
Undefined == <<"undefined">>

IsHex(c) ==
    c \in {"0","1","2","3","4","5","6","7","8","9",
           "A","B","C","D","E","F","a","b","c","d","e","f"}

IsDigit(c) == c \in {"0","1","2","3","4","5","6","7","8","9"}

\* \s of a JavaScript regular expression, and what String.trim removes
IsSpace(c) == c \in {" ", NL, "\t", "\r"}

\* whitespace of the JSON grammar
IsJsonWs(c) == c \in {" ", NL, "\t", "\r"}

StartsWithAt(s, i, p) ==
    /\ i + Len(p) - 1 <= Len(s)
    /\ \A k \in 1..Len(p) : s[i + k - 1] = p[k]

Min(a, b) == IF a < b THEN a ELSE b

Count(s, c) == Cardinality({i \in 1..Len(s) : s[i] = c})

RECURSIVE Repeat(_, _)
Repeat(c, n) == IF n <= 0 THEN <<>> ELSE <<c>> \o Repeat(c, n - 1)

\* String.prototype.trim
RECURSIVE TrimLeft(_)
TrimLeft(s) ==
    IF s # <<>> /\ IsSpace(s[1]) THEN TrimLeft(Tail(s)) ELSE s

RECURSIVE TrimRight(_)
TrimRight(s) ==
    IF s # <<>> /\ IsSpace(s[Len(s)]) THEN TrimRight(SubSeq(s, 1, Len(s) - 1)) ELSE s

Trim(s) == TrimRight(TrimLeft(s))

\* number of consecutive hex characters of s starting at position i
RECURSIVE HexRun(_, _)
HexRun(s, i) ==
    IF i <= Len(s) /\ IsHex(s[i]) THEN 1 + HexRun(s, i + 1) ELSE 0

\* first position at or after i that holds no \s character
RECURSIVE SkipSpace(_, _)
SkipSpace(s, i) ==
    IF i <= Len(s) /\ IsSpace(s[i]) THEN SkipSpace(s, i + 1) ELSE i

FenceJson == <<BT, BT, BT, "j", "s", "o", "n">>
Fence == <<BT, BT, BT>>

\* text.replace(/BT BT BT json\n?|BT BT BT/g, '') from position i on
RECURSIVE StripFencesFrom(_, _)
StripFencesFrom(s, i) ==
    IF i > Len(s) THEN <<>>
    ELSE IF StartsWithAt(s, i, FenceJson)
         THEN StripFencesFrom(s, IF i + 7 <= Len(s) /\ s[i + 7] = NL THEN i + 8 ELSE i + 7)
    ELSE IF StartsWithAt(s, i, Fence) THEN StripFencesFrom(s, i + 3)
    ELSE <<s[i]>> \o StripFencesFrom(s, i + 1)

StripFences(s) == Trim(StripFencesFrom(s, 1))

\* fewest hex characters that must follow the six of a color for the run to be collapsed
MinExtraHex == 2

\* clean.replace(/(#[0-9A-Fa-f]{6})[0-9A-Fa-f]{2,}/g, '$1') from position i on
RECURSIVE CollapseHexFrom(_, _)
CollapseHexFrom(s, i) ==
    IF i > Len(s) THEN <<>>
    ELSE IF s[i] = "#" /\ HexRun(s, i + 1) >= 6 + MinExtraHex
         THEN SubSeq(s, i, i + 6) \o CollapseHexFrom(s, i + 1 + HexRun(s, i + 1))
    ELSE <<s[i]>> \o CollapseHexFrom(s, i + 1)

CollapseHexRuns(s) == CollapseHexFrom(s, 1)

\* clean.replace(/,\s*([\]\}])/g, '$1') from position i on
RECURSIVE RemoveTrailingCommasFrom(_, _)
RemoveTrailingCommasFrom(s, i) ==
    IF i > Len(s) THEN <<>>
    ELSE LET j == SkipSpace(s, i + 1) IN
         IF s[i] = "," /\ j <= Len(s) /\ s[j] \in {"]", "}"}
         THEN <<s[j]>> \o RemoveTrailingCommasFrom(s, j + 1)
         ELSE <<s[i]>> \o RemoveTrailingCommasFrom(s, i + 1)

RemoveTrailingCommas(s) == RemoveTrailingCommasFrom(s, 1)

\* /(#?[0-9A-Fa-f]{6})$/.test(clean)
EndsWithHexColor(s) ==
    Len(s) >= 6 /\ \A k \in (Len(s) - 5)..Len(s) : IsHex(s[k])

\* the salvage pass: close a string cut after a color, then the braces, then the brackets
Salvage(s) ==
    LET q == IF EndsWithHexColor(s) THEN s \o <<QUOTE>> ELSE s
        openBraces == Count(q, "{")
        closeBraces == Count(q, "}")
        b == IF openBraces > closeBraces
             THEN q \o Repeat("}", openBraces - closeBraces) ELSE q
        openBrackets == Count(b, "[")
        closeBrackets == Count(b, "]")
    IN  IF openBrackets > closeBrackets
        THEN b \o Repeat("]", openBrackets - closeBrackets) ELSE b

----------------------------------------------------------------------------
(* JSON.parse, for texts without backslash escapes.  A parsed value is a   *)
(* tree of records of one shape: t is the kind, s the characters of a      *)
(* string, number or literal, keys the member names of an object and kids  *)
(* the elements of an array or the member values of an object.             *)

NoValue == [t |-> "none", s |-> <<>>, keys |-> <<>>, kids |-> <<>>]
StrVal(b) == [t |-> "str", s |-> b, keys |-> <<>>, kids |-> <<>>]
NumVal(d) == [t |-> "num", s |-> d, keys |-> <<>>, kids |-> <<>>]
LitVal(l) == [t |-> "lit", s |-> l, keys |-> <<>>, kids |-> <<>>]
ArrVal(es) == [t |-> "arr", s |-> <<>>, keys |-> <<>>, kids |-> es]
ObjVal(ks, vs) == [t |-> "obj", s |-> <<>>, keys |-> ks, kids |-> vs]

ParseFail == [ok |-> FALSE, v |-> NoValue, i |-> 0]
ParseOk(v, i) == [ok |-> TRUE, v |-> v, i |-> i]

RECURSIVE SkipJsonWs(_, _)
SkipJsonWs(s, i) ==
    IF i <= Len(s) /\ IsJsonWs(s[i]) THEN SkipJsonWs(s, i + 1) ELSE i

\* position of the quote closing the string whose body starts at i; 0 when the
\* string is unterminated or holds a control character
RECURSIVE StringEnd(_, _)
StringEnd(s, i) ==
    IF i > Len(s) THEN 0
    ELSE IF s[i] = QUOTE THEN i
    ELSE IF s[i] \in {NL, "\t", "\r", "\\"} THEN 0
    ELSE StringEnd(s, i + 1)

ParseString(s, i) ==
    LET e == StringEnd(s, i + 1) IN
    IF e = 0 THEN ParseFail ELSE ParseOk(StrVal(SubSeq(s, i + 1, e - 1)), e + 1)

RECURSIVE DigitRun(_, _)
DigitRun(s, i) ==
    IF i <= Len(s) /\ IsDigit(s[i]) THEN 1 + DigitRun(s, i + 1) ELSE 0

\* the position after the digits starting at a, 0 when there is none
DigitsEnd(s, a) == IF DigitRun(s, a) = 0 THEN 0 ELSE a + DigitRun(s, a)

\* (0|[1-9][0-9]*) at a: the position after it, 0 when it does not match
IntEnd(s, a) ==
    IF DigitRun(s, a) = 0 THEN 0 ELSE IF s[a] = "0" THEN a + 1 ELSE DigitsEnd(s, a)

\* (\.[0-9]+)? at e
FracEnd(s, e) ==
    IF e # 0 /\ e <= Len(s) /\ s[e] = "." THEN DigitsEnd(s, e + 1) ELSE e

\* ([eE][+-]?[0-9]+)? at e
ExpEnd(s, e) ==
    IF e # 0 /\ e <= Len(s) /\ s[e] \in {"e", "E"}
    THEN DigitsEnd(s, IF e + 1 <= Len(s) /\ s[e + 1] \in {"+", "-"} THEN e + 2 ELSE e + 1)
    ELSE e

\* -?(0|[1-9][0-9]*)(\.[0-9]+)?([eE][+-]?[0-9]+)? at i
NumberEnd(s, i) == ExpEnd(s, FracEnd(s, IntEnd(s, IF s[i] = "-" THEN i + 1 ELSE i)))

NumberUpTo(s, i, end) ==
    IF end = 0 THEN ParseFail ELSE ParseOk(NumVal(SubSeq(s, i, end - 1)), end)

ParseNumber(s, i) == NumberUpTo(s, i, NumberEnd(s, i))

Literals == {<<"t","r","u","e">>, <<"f","a","l","s","e">>, <<"n","u","l","l">>}

ParseLiteral(s, i) ==
    IF \E l \in Literals : StartsWithAt(s, i, l)
    THEN LET l == CHOOSE m \in Literals : StartsWithAt(s, i, m)
         IN  ParseOk(LitVal(l), i + Len(l))
    ELSE ParseFail

\* an object's member list after one more member: a repeated name keeps its
\* first place and takes the last value
PutMember(ks, vs, k, v) ==
    IF \E n \in 1..Len(ks) : ks[n] = k
    THEN LET n == CHOOSE m \in 1..Len(ks) : ks[m] = k
         IN  <<ks, [vs EXCEPT ![n] = v]>>
    ELSE <<Append(ks, k), Append(vs, v)>>

\* the parser's state: the next position, what it expects there ("value",
\* "key", "after" a value inside a container, "end" of the text), the open
\* containers (innermost last, each with the member name awaiting its value)
\* and the finished top-level value
ParserStart ==
    [i |-> 1, mode |-> "value", stack |-> <<>>, top |-> NoValue]

OpenFrame(kind) == [t |-> kind, keys |-> <<>>, kids |-> <<>>, key |-> <<>>]

FrameValue(f) == IF f.t = "arr" THEN ArrVal(f.kids) ELSE ObjVal(f.keys, f.kids)

\* the open containers after value v has been read inside the innermost one
WithMembers(stack, m) ==
    [stack EXCEPT ![Len(stack)].keys = m[1], ![Len(stack)].kids = m[2]]

AttachTo(stack, f, v) ==
    IF f.t = "arr" THEN [stack EXCEPT ![Len(stack)].kids = Append(f.kids, v)]
    ELSE WithMembers(stack, PutMember(f.keys, f.kids, f.key, v))

Attach(stack, v) == AttachTo(stack, stack[Len(stack)], v)

\* value v has been read and the text continues at position i
Delivered(st, v, i) ==
    IF st.stack = <<>> THEN [st EXCEPT !.i = i, !.mode = "end", !.top = v]
    ELSE [st EXCEPT !.i = i, !.mode = "after", !.stack = Attach(st.stack, v)]

ParserFailed(st) == [st EXCEPT !.mode = "fail"]

ParseScalar(s, j) ==
    IF s[j] = QUOTE THEN ParseString(s, j)
    ELSE IF s[j] = "-" \/ IsDigit(s[j]) THEN ParseNumber(s, j)
    ELSE ParseLiteral(s, j)

\* a scalar has been parsed, or not
DeliverParsed(st, r) == IF r.ok THEN Delivered(st, r.v, r.i) ELSE ParserFailed(st)

\* s[j] opens a container: it is empty (its closer is at k) or it stays open
OpenContainer(s, st, kind, closer, k) ==
    IF k <= Len(s) /\ s[k] = closer
    THEN Delivered(st, FrameValue(OpenFrame(kind)), k + 1)
    ELSE [st EXCEPT !.i = k, !.mode = IF kind = "obj" THEN "key" ELSE "value",
                    !.stack = Append(st.stack, OpenFrame(kind))]

ExpectValue(s, st, j) ==
    IF s[j] = "{" THEN OpenContainer(s, st, "obj", "}", SkipJsonWs(s, j + 1))
    ELSE IF s[j] = "[" THEN OpenContainer(s, st, "arr", "]", SkipJsonWs(s, j + 1))
    ELSE DeliverParsed(st, ParseScalar(s, j))

\* the member name k has been parsed, or not; its colon is expected at c
KeyParsed(s, st, k, c) ==
    IF k.ok /\ c <= Len(s) /\ s[c] = ":"
    THEN [st EXCEPT !.i = c + 1, !.mode = "value", !.stack[Len(st.stack)].key = k.v.s]
    ELSE ParserFailed(st)

KeyColonAt(s, k) == IF k.ok THEN SkipJsonWs(s, k.i) ELSE 0

KeyAt(s, st, k) == KeyParsed(s, st, k, KeyColonAt(s, k))

\* a member name and its colon
ExpectKey(s, st, j) ==
    KeyAt(s, st, IF s[j] = QUOTE THEN ParseString(s, j) ELSE ParseFail)

\* after a value inside a container: a comma, or the container's own closer
CommaOrCloser(s, st, j, f) ==
    IF s[j] = ","
    THEN [st EXCEPT !.i = j + 1, !.mode = IF f.t = "arr" THEN "value" ELSE "key"]
    ELSE IF (s[j] = "]" /\ f.t = "arr") \/ (s[j] = "}" /\ f.t = "obj")
    THEN Delivered([st EXCEPT !.stack = SubSeq(st.stack, 1, Len(st.stack) - 1)],
                   FrameValue(f), j + 1)
    ELSE ParserFailed(st)

ExpectCommaOrCloser(s, st, j) == CommaOrCloser(s, st, j, st.stack[Len(st.stack)])

\* one step of the parser, j being the next position that holds no whitespace
ParserStepAt(s, st, j) ==
    IF st.mode = "end"
    THEN IF j > Len(s) THEN [st EXCEPT !.mode = "done"] ELSE ParserFailed(st)
    ELSE IF j > Len(s) THEN ParserFailed(st)
    ELSE IF st.mode = "value" THEN ExpectValue(s, st, j)
    ELSE IF st.mode = "key" THEN ExpectKey(s, st, j)
    ELSE ExpectCommaOrCloser(s, st, j)

ParserStep(s, st) == ParserStepAt(s, st, SkipJsonWs(s, st.i))

RECURSIVE ParserRun(_, _)
ParserRun(s, st) ==
    IF st.mode \in {"done", "fail"} THEN st ELSE ParserRun(s, ParserStep(s, st))

ParserOutcome(st) ==
    IF st.mode = "done" THEN [ok |-> TRUE, v |-> st.top] ELSE [ok |-> FALSE, v |-> NoValue]

\* JSON.parse(s): ok is FALSE where JSON.parse throws a SyntaxError
JSONParse(s) == ParserOutcome(ParserRun(s, ParserStart))

\* JSON.stringify of a tree (no whitespace); the inverse of JSONParse
RECURSIVE Stringify(_)
RECURSIVE StringifyKids(_, _)
StringifyKids(v, n) ==
    IF n > Len(v.kids) THEN <<>>
    ELSE (IF n > 1 THEN <<",">> ELSE <<>>)
         \o (IF v.t = "obj" THEN <<QUOTE>> \o v.keys[n] \o <<QUOTE, ":">> ELSE <<>>)
         \o Stringify(v.kids[n]) \o StringifyKids(v, n + 1)

Stringify(v) ==
    IF v.t = "str" THEN <<QUOTE>> \o v.s \o <<QUOTE>>
    ELSE IF v.t = "arr" THEN <<"[">> \o StringifyKids(v, 1) \o <<"]">>
    ELSE IF v.t = "obj" THEN <<"{">> \o StringifyKids(v, 1) \o <<"}">>
    ELSE v.s

----------------------------------------------------------------------------
(* The texts parseJSON is called with: the model's response.text           *)

\* characters of the free-form string bodies
BodyChars == {",", "]", "{", " ", "k"}

RECURSIVE SeqsUpTo(_, _)
SeqsUpTo(S, n) ==
    IF n = 0 THEN {<<>>}
    ELSE LET shorter == SeqsUpTo(S, n - 1) IN
         shorter \cup {Append(b, c) : b \in {x \in shorter : Len(x) = n - 1}, c \in S}

\* a color token followed by n further hex characters, as in #FF5733333333
ColorToken == <<"#", "F", "F", "5", "7", "3", "3">>
GlitchColor(n) == ColorToken \o Repeat("3", n)

StringBodies ==
    SeqsUpTo(BodyChars, MaxBodyLen)
    \cup {GlitchColor(n) : n \in 0..MaxExtraHex}
    \cup {Fence, FenceJson}

Leaves == {StrVal(b) : b \in StringBodies} \cup {NumVal(<<"3">>)}

Kinds == {"obj", "arr"}
NestPaths == SeqsUpTo(Kinds, MaxDepth)

\* the leaf wrapped in the containers of path, outermost first
RECURSIVE Nest(_, _)
Nest(path, leaf) ==
    IF path = <<>> THEN leaf
    ELSE IF path[1] = "obj" THEN ObjVal(<<(<<"k">>)>>, <<Nest(Tail(path), leaf)>>)
    ELSE ArrVal(<<Nest(Tail(path), leaf)>>)

JsonValues == {Nest(p, l) : p \in NestPaths, l \in Leaves}

ValidTexts == {Stringify(v) : v \in JsonValues}

DropLast(s, n) == SubSeq(s, 1, Len(s) - n)

\* valid JSON whose last n closing braces/brackets are missing
TruncatedTexts ==
    UNION {{DropLast(Stringify(Nest(p, l)), n) : n \in 1..Min(MaxMissing, Len(p))} :
            p \in NestPaths, l \in Leaves}

\* valid JSON inside a Markdown code fence, with or without the language tag
FencedTexts ==
    {FenceJson \o <<NL>> \o t \o <<NL>> \o Fence : t \in ValidTexts}
    \cup {Fence \o t \o Fence : t \in ValidTexts}

\* JSON with a comma before its last closing brace or bracket
TrailingCommaTexts ==
    {DropLast(t, 1) \o <<",", " ", t[Len(t)]>> :
        t \in {x \in ValidTexts : x[Len(x)] \in {"]", "}"}}}

ParseInputs ==
    ValidTexts \cup TruncatedTexts \cup FencedTexts \cup TrailingCommaTexts
    \cup {<<>>, Undefined}

----------------------------------------------------------------------------
(* parseJSON, statement by statement *)

ParseIdle ==
    /\ text = Undefined
    /\ clean = <<>>
    /\ ppc = "idle"
    /\ parsed = NoValue
    /\ perror = "none"

ParseInit ==
    /\ text \in ParseInputs
    /\ clean = <<>>
    /\ ppc = "start"
    /\ parsed = NoValue
    /\ perror = "none"

\* if (!text) throw new Error("Empty response from AI")
ThrowEmpty ==
    /\ ppc = "start"
    /\ text \in {Undefined, <<>>}
    /\ perror' = "empty"
    /\ ppc' = "thrown"
    /\ UNCHANGED <<text, clean, parsed, notParse>>

StripFencesStep ==
    /\ ppc = "start"
    /\ text \notin {Undefined, <<>>}
    /\ clean' = StripFences(text)
    /\ ppc' = "collapse"
    /\ UNCHANGED <<text, parsed, perror, notParse>>

CollapseHexStep ==
    /\ ppc = "collapse"
    /\ clean' = CollapseHexRuns(clean)
    /\ ppc' = "commas"
    /\ UNCHANGED <<text, parsed, perror, notParse>>

RemoveTrailingCommasStep ==
    /\ ppc = "commas"
    /\ clean' = RemoveTrailingCommas(clean)
    /\ ppc' = "parse"
    /\ UNCHANGED <<text, parsed, perror, notParse>>

\* try { return JSON.parse(clean) } catch (parseError) { ... }
StrictParseStep ==
    /\ ppc = "parse"
    /\ \E r \in {JSONParse(clean)} :
          IF r.ok THEN parsed' = r.v /\ ppc' = "returned"
          ELSE parsed' = parsed /\ ppc' = "salvage"
    /\ UNCHANGED <<text, clean, perror, notParse>>

SalvageStep ==
    /\ ppc = "salvage"
    /\ clean' = Salvage(clean)
    /\ ppc' = "reparse"
    /\ UNCHANGED <<text, parsed, perror, notParse>>

\* return JSON.parse(clean); a second failure reaches the outer catch
ReparseStep ==
    /\ ppc = "reparse"
    /\ \E r \in {JSONParse(clean)} :
          IF r.ok THEN parsed' = r.v /\ ppc' = "returned" /\ perror' = perror
          ELSE parsed' = parsed /\ ppc' = "thrown" /\ perror' = "malformed"
    /\ UNCHANGED <<text, clean, notParse>>

ParseNext ==
    \/ ThrowEmpty
    \/ StripFencesStep
    \/ CollapseHexStep
    \/ RemoveTrailingCommasStep
    \/ StrictParseStep
    \/ SalvageStep
    \/ ReparseStep

----------------------------------------------------------------------------
(* JavaScript values of the model's analysis response: every value is a    *)
(* record of one shape.  A string is the sequence of its pieces, "" is the *)
(* empty sequence.                                                         *)

Undef == [kind |-> "undefined", items |-> <<>>]
Str(pieces) == [kind |-> "string", items |-> pieces]
Arr(elems) == [kind |-> "array", items |-> elems]
Bool(b) == [kind |-> "boolean", items |-> <<IF b THEN "true" ELSE "false">>]

\* ToBoolean(v)
Truthy(v) ==
    CASE v.kind = "undefined" -> FALSE
      [] v.kind = "string" -> v.items # <<>>
      [] v.kind = "array" -> TRUE
      [] v.kind = "boolean" -> v.items = <<"true">>

\* v?.length > 0
LengthPositive(v) == v.kind \in {"string", "array"} /\ Len(v.items) > 0

\* a || b
OrElse(a, b) == IF Truthy(a) THEN a ELSE b

\* Array.prototype.join(', ')
RECURSIVE Join(_)
Join(elems) ==
    IF elems = <<>> THEN <<>>
    ELSE IF Len(elems) = 1 THEN elems
    ELSE <<elems[1], ", ">> \o Join(Tail(elems))

\* String(v) of a string or an array
ToStr(v) == IF v.kind = "array" THEN Str(Join(v.items)) ELSE v

StringFields == {"category", "targetAudience", "seoStrategy", "marketAnalysis",
                 "customerPsychology"}
ArrayFields == {"coreFeatures", "primaryKeywords", "tone"}

\* a response with every property filled in
GoodRaw ==
    [isJunk |-> Bool(FALSE),
     category |-> Str(<<"Productivity">>),
     targetAudience |-> Str(<<"Remote teams">>),
     coreFeatures |-> Arr(<<"Timer", "Reports">>),
     primaryKeywords |-> Arr(<<"time tracker">>),
     tone |-> Arr(<<"Bold", "Calm", "Clear">>),
     seoStrategy |-> Str(<<"Rank for intent keywords">>),
     marketAnalysis |-> Str(<<"Crowded niche">>),
     customerPsychology |-> Str(<<"Wants focus">>)]

\* a response that only flags the input as junk
JunkRaw ==
    [f \in DOMAIN GoodRaw |-> IF f = "isJunk" THEN Bool(TRUE) ELSE Undef]

\* the responseSchema types every property and requires none: a property is
\* of its type (possibly empty) or absent
RawObjects ==
    {GoodRaw, JunkRaw}
    \cup {[GoodRaw EXCEPT ![f] = v] : f \in StringFields, v \in {Undef, Str(<<>>)}}
    \cup {[GoodRaw EXCEPT ![f] = v] : f \in ArrayFields, v \in {Undef, Arr(<<>>)}}
    \cup {[GoodRaw EXCEPT !["isJunk"] = v] : v \in {Undef, Bool(TRUE)}}

\* response.text: JSON of a raw object, text that parseJSON cannot repair, or nothing
Responses ==
    {[text |-> "json", raw |-> r] : r \in RawObjects}
    \cup {[text |-> "malformed", raw |-> JunkRaw], [text |-> "empty", raw |-> JunkRaw]}

NoResponse == [text |-> "none", raw |-> JunkRaw]

\* what the remote call rejects with
NoError == [status |-> "undefined", code |-> "undefined", message |-> <<>>]
RateLimitErrors ==
    {[status |-> "429", code |-> "undefined", message |-> <<>>],
     [status |-> "undefined", code |-> "429", message |-> <<>>],
     [status |-> "undefined", code |-> "undefined", message |-> <<"got status: ", "429">>],
     [status |-> "undefined", code |-> "undefined", message |-> <<"exceeded your ", "quota">>]}
OtherErrors ==
    {[status |-> "500", code |-> "500", message |-> <<"Internal error">>],
     [status |-> "undefined", code |-> "undefined", message |-> <<"Failed to fetch">>]}
RemoteErrors == RateLimitErrors \cup OtherErrors

\* String.prototype.includes, for a needle that is one piece of the message
Includes(message, needle) == \E n \in 1..Len(message) : message[n] = needle

\* one invocation of fn: it resolves with a response or rejects with an error
Resolved(r) == [ok |-> TRUE, resp |-> r, err |-> NoError]
Rejected(e) == [ok |-> FALSE, resp |-> NoResponse, err |-> e]
NoOutcome == [ok |-> FALSE, resp |-> NoResponse, err |-> NoError]
Outcomes == {Resolved(r) : r \in Responses} \cup {Rejected(e) : e \in RemoteErrors}

----------------------------------------------------------------------------
(* retry(fn, retries = 3, delay = 2000) *)

DefaultRetries == 3
DefaultDelay == 2000

\* every error taken for a rate limit
AnyError(e) == TRUE

IsRateLimit(e) ==
    \/ e.status = "429"
    \/ e.code = "429"
    \/ Includes(e.message, "429")
    \/ Includes(e.message, "quota")

\* a retry that ignores the budget
RetryUnbudgeted(e, left) == IsRateLimit(e)

\* if (retries > 0 && isRateLimit)
ShouldRetry(e, left) == left > 0 /\ IsRateLimit(e)

\* a wait that does not grow
SameDelay(d) == d

\* retry(fn, retries - 1, delay * 2)
NextDelay(d) == d * 2

RetryIdle ==
    /\ rpc = "idle"
    /\ retries = DefaultRetries
    /\ delay = DefaultDelay
    /\ calls = 0
    /\ waits = <<>>
    /\ outcomes = <<>>
    /\ settled = NoOutcome
    /\ invocations = 0

\* a call retry(fn) with the default parameters
RetryCalled ==
    /\ rpc = "call"
    /\ retries = DefaultRetries
    /\ delay = DefaultDelay
    /\ calls = 0
    /\ waits = <<>>
    /\ outcomes = <<>>
    /\ settled = NoOutcome
    /\ invocations = 0

\* try { return await fn() } catch (error) { ... }
RetryInvoke(o) ==
    /\ rpc = "call"
    /\ calls' = calls + 1
    /\ invocations' = invocations + 1
    /\ outcomes' = Append(outcomes, o)
    /\ IF o.ok THEN rpc' = "returned" /\ settled' = o
       ELSE IF ShouldRetry(o.err, retries) THEN rpc' = "waiting" /\ settled' = settled
       ELSE rpc' = "thrown" /\ settled' = o
    /\ UNCHANGED <<retries, delay, waits>>
    /\ UNCHANGED <<analyzeVars, viewVars, notAnalysis>>

\* the timer of `await new Promise(resolve => setTimeout(resolve, delay))` fires
RetryTimerFires ==
    /\ rpc = "waiting"
    /\ waits' = Append(waits, delay)
    /\ retries' = retries - 1
    /\ delay' = NextDelay(delay)
    /\ rpc' = "call"
    /\ UNCHANGED <<calls, outcomes, settled, invocations>>
    /\ UNCHANGED <<analyzeVars, viewVars, notAnalysis>>

----------------------------------------------------------------------------
(* analyzeProjectInput *)

maxAttempts == 3

Null == [kind |-> "null", items |-> <<>>]

UnableMessage == <<"Unable to obtain analysis data", ".">>
JunkMessage == <<"Junk input detected", ".">>

RequiredTruthy == {"category", "targetAudience", "seoStrategy", "marketAnalysis",
                   "customerPsychology"}
RequiredNonEmpty == {"coreFeatures", "primaryKeywords"}

validateAnalysis(raw) ==
    IF raw.isJunk.kind = "undefined" THEN FALSE
    ELSE IF ~Truthy(raw.isJunk)
         THEN /\ \A f \in RequiredTruthy : Truthy(raw[f])
              /\ \A f \in RequiredNonEmpty : LengthPositive(raw[f])
    ELSE TRUE

\* the object literal analyzeProjectInput returns
MapResult(raw) ==
    [category |-> OrElse(raw.category, Str(<<"Productivity">>)),
     targetAudience |-> OrElse(raw.targetAudience, Str(<<"General Users">>)),
     coreFeatures |-> OrElse(raw.coreFeatures, Arr(<<>>)),
     primaryKeywords |-> OrElse(raw.primaryKeywords, Arr(<<>>)),
     tone |-> IF raw.tone.kind = "array" THEN Str(Join(raw.tone.items))
              ELSE ToStr(OrElse(raw.tone, Str(<<"Professional">>))),
     seoStrategy |-> raw.seoStrategy,
     marketAnalysis |-> raw.marketAnalysis,
     customerPsychology |-> raw.customerPsychology]

NoResult == [f \in DOMAIN MapResult(GoodRaw) |-> Undef]

\* a request that never carries the hint
NeverHint(n) == FALSE

\* ${attempts > 0 ? "IMPORTANT: Your previous output was incomplete ..." : ""}
CarriesHint(n) == n > 0

\* a loop that runs once more
MayAttemptOnceMore(n) == n <= maxAttempts

\* while (attempts < maxAttempts)
MayAttempt(n) == n < maxAttempts

AnalyzeIdle ==
    /\ apc = "idle"
    /\ attempts = 0
    /\ hints = <<>>
    /\ rawResponse = Null
    /\ attemptLog = <<>>
    /\ junkFlagged = FALSE
    /\ aresult = NoResult
    /\ aerror = <<>>

\* one outcome of each kind: a rate-limit error by status and one by message,
\* another error, a text parseJSON cannot repair, an incomplete response, a
\* junk flag and a complete response
CallOutcomes ==
    {Rejected([status |-> "429", code |-> "undefined", message |-> <<>>]),
     Rejected([status |-> "undefined", code |-> "undefined", message |-> <<"exceeded your ", "quota">>]),
     Rejected([status |-> "undefined", code |-> "undefined", message |-> <<"Failed to fetch">>]),
     Resolved([text |-> "malformed", raw |-> JunkRaw]),
     Resolved([text |-> "json", raw |-> [GoodRaw EXCEPT !["category"] = Undef]]),
     Resolved([text |-> "json", raw |-> JunkRaw]),
     Resolved([text |-> "json", raw |-> GoodRaw])}

\* analyzeProjectInput has been called: the loop is about to start
AnalyzeCalled ==
    /\ apc = "loop"
    /\ attempts = 0
    /\ hints = <<>>
    /\ rawResponse = Null
    /\ attemptLog = <<>>
    /\ junkFlagged = FALSE
    /\ aresult = NoResult
    /\ aerror = <<>>

\* the call of retry has settled and its frames are gone
RetryConsumed ==
    /\ rpc' = "idle"
    /\ retries' = DefaultRetries
    /\ delay' = DefaultDelay
    /\ calls' = 0
    /\ waits' = <<>>
    /\ outcomes' = <<>>
    /\ settled' = NoOutcome
    /\ invocations' = invocations

\* the loop issues one request through retry
AnalyzeIssueRequest ==
    /\ apc = "loop"
    /\ MayAttempt(attempts)
    /\ hints' = Append(hints, CarriesHint(attempts))
    /\ apc' = "awaiting"
    /\ rpc' = "call"
    /\ retries' = DefaultRetries
    /\ delay' = DefaultDelay
    /\ calls' = 0
    /\ waits' = <<>>
    /\ outcomes' = <<>>
    /\ settled' = NoOutcome
    /\ invocations' = invocations
    /\ UNCHANGED <<attempts, rawResponse, attemptLog, junkFlagged, aresult, aerror>>
    /\ UNCHANGED <<viewVars, notAnalysis>>

\* retry resolved: parseJSON(response.text), validateAnalysis(parsed), break or count
AnalyzeOnResponse ==
    /\ apc = "awaiting"
    /\ rpc = "returned"
    /\ LET resp == settled.resp IN
       /\ junkFlagged' = (junkFlagged \/ (resp.text = "json" /\ resp.raw.isJunk = Bool(TRUE)))
       /\ IF resp.text # "json"
          THEN /\ attemptLog' = Append(attemptLog, "malformed")
               /\ attempts' = attempts + 1
               /\ apc' = "loop"
               /\ rawResponse' = rawResponse
          ELSE IF validateAnalysis(resp.raw)
          THEN /\ attemptLog' = Append(attemptLog, "valid")
               /\ attempts' = attempts
               /\ apc' = "break"
               /\ rawResponse' = resp.raw
          ELSE /\ attemptLog' = Append(attemptLog, "invalid")
               /\ attempts' = attempts + 1
               /\ apc' = "loop"
               /\ rawResponse' = rawResponse
    /\ RetryConsumed
    /\ UNCHANGED <<hints, aresult, aerror, viewVars, notAnalysis>>

\* retry rejected: catch (e) { console.error(...) }; attempts++
AnalyzeOnError ==
    /\ apc = "awaiting"
    /\ rpc = "thrown"
    /\ attemptLog' = Append(attemptLog, "error")
    /\ attempts' = attempts + 1
    /\ apc' = "loop"
    /\ RetryConsumed
    /\ UNCHANGED <<hints, rawResponse, junkFlagged, aresult, aerror, viewVars, notAnalysis>>

\* after the loop: the two throws and the return
AnalyzeFinish ==
    /\ apc = "break" \/ (apc = "loop" /\ ~MayAttempt(attempts))
    /\ IF rawResponse = Null
       THEN aerror' = UnableMessage /\ aresult' = aresult /\ apc' = "thrown"
       ELSE IF Truthy(rawResponse.isJunk)
       THEN aerror' = JunkMessage /\ aresult' = aresult /\ apc' = "thrown"
       ELSE aerror' = aerror /\ aresult' = MapResult(rawResponse) /\ apc' = "returned"
    /\ UNCHANGED <<attempts, hints, rawResponse, attemptLog, junkFlagged>>
    /\ UNCHANGED <<retryVars, viewVars, notAnalysis>>

----------------------------------------------------------------------------
(* AnalysisView.handleAnalyze *)

MinDescriptionLength == 20
\* lengths of the text the user may have entered
DescriptionLengths == {MinDescriptionLength - 1, MinDescriptionLength, MinDescriptionLength + 1}

TooShortMessage == <<"Please provide a longer description (min 20 chars).">>
JunkGuidance ==
    <<"Add a real project please! Our AI needs a clear description of your extension's purpose to perform its magic.">>
FailedPrefix == <<"Analysis failed: ">>

\* every message taken for the junk rejection
AnyMessage(msg) == TRUE

\* msg.includes("Junk input detected")
IsJunkRejection(msg) == Includes(msg, "Junk input detected")

\* err.message || "Failed to analyze text."
MessageOf(msg) == IF msg = <<>> THEN <<"Failed to analyze text", ".">> ELSE msg

\* the catch block of handleAnalyze
ErrorShown(msg) ==
    IF IsJunkRejection(MessageOf(msg)) THEN JunkGuidance ELSE FailedPrefix \o MessageOf(msg)

ViewIdle ==
    /\ description = MinDescriptionLength
    /\ isAnalyzing = FALSE
    /\ error = <<>>
    /\ completed = NoResult

ViewInit ==
    /\ description \in DescriptionLengths
    /\ isAnalyzing = FALSE
    /\ error = <<>>
    /\ completed = NoResult

\* the user edits the text (the textarea is disabled while analyzing)
SetDescription(n) ==
    /\ ~isAnalyzing
    /\ completed = NoResult
    /\ description' = n
    /\ UNCHANGED <<isAnalyzing, error, completed, retryVars, analyzeVars, notAnalysis>>

\* the button is pressed with too short a text
HandleAnalyzeTooShort ==
    /\ ~isAnalyzing
    /\ completed = NoResult
    /\ description < MinDescriptionLength
    /\ error' = TooShortMessage
    /\ UNCHANGED <<description, isAnalyzing, completed, retryVars, analyzeVars, notAnalysis>>

\* the button is pressed: analyzeProjectInput(description) starts
HandleAnalyzeStart ==
    /\ ~isAnalyzing
    /\ completed = NoResult
    /\ description >= MinDescriptionLength
    /\ isAnalyzing' = TRUE
    /\ error' = <<>>
    /\ apc' = "loop"
    /\ attempts' = 0
    /\ hints' = <<>>
    /\ rawResponse' = Null
    /\ attemptLog' = <<>>
    /\ junkFlagged' = FALSE
    /\ aresult' = NoResult
    /\ aerror' = <<>>
    /\ invocations' = 0
    /\ UNCHANGED <<rpc, retries, delay, calls, waits, outcomes, settled>>
    /\ UNCHANGED <<description, completed, notAnalysis>>

\* analyzeProjectInput returned: onAnalysisComplete(result, description)
HandleAnalyzeReturned ==
    /\ isAnalyzing
    /\ apc = "returned"
    /\ completed' = aresult
    /\ isAnalyzing' = FALSE
    /\ apc' = "idle"
    /\ UNCHANGED <<description, error, retryVars, notAnalysis>>
    /\ UNCHANGED <<attempts, hints, rawResponse, attemptLog, junkFlagged, aresult, aerror>>

\* analyzeProjectInput threw: the catch block, then finally
HandleAnalyzeThrown ==
    /\ isAnalyzing
    /\ apc = "thrown"
    /\ error' = ErrorShown(aerror)
    /\ isAnalyzing' = FALSE
    /\ apc' = "idle"
    /\ UNCHANGED <<description, completed, retryVars, notAnalysis>>
    /\ UNCHANGED <<attempts, hints, rawResponse, attemptLog, junkFlagged, aresult, aerror>>

----------------------------------------------------------------------------
(* ScreenshotStudio: assets, templates and per-template positions *)

Templates == {"SPLIT", "CENTERED", "OVERLAY", "MINIMAL", "DEVICE"}
Tabs == {"SCREENSHOTS", "SMALL_TILE", "MARQUEE"}

NumberFields == {"scale", "x", "y", "rotate", "imgZoom", "imgX", "imgY", "textX", "textY",
                 "headlineSize", "subheadlineSize", "logoSize"}
FlagFields == {"showLogo", "showName"}
Fields == NumberFields \cup FlagFields

DefaultPosition(t) ==
    [f \in Fields |->
        IF f \in FlagFields THEN TRUE
        ELSE IF f \in {"scale", "imgZoom"} THEN 1
        ELSE IF f \in {"headlineSize", "subheadlineSize", "logoSize"} THEN 100
        ELSE IF f = "x" /\ t = "DEVICE" THEN 40
        ELSE 0]

DEFAULT_POSITIONS == [t \in Templates |-> DefaultPosition(t)]

\* the templates the Composition buttons offer
OfferedTemplates == {"DEVICE", "SPLIT", "CENTERED", "MINIMAL"}

\* an id: its text after the marquee prefix "mq_", and whether it has the prefix
Id(base) == [mq |-> FALSE, base |-> base]
NullId == Id("null")

\* an asset: the fields of ScreenshotData the studio's position logic and its
\* copy analysis read
Asset(base, template) ==
    [id |-> Id(base), template |-> template, positions |-> DEFAULT_POSITIONS,
     renderedUrl |-> <<>>,
     headline |-> <<"Headline">>, subheadline |-> <<"Tagline">>, highlightText |-> <<>>,
     contentMode |-> "ICON"]

\* createOtherDefaults('SCREENSHOTS'), createSmallTileDefaults(), createOtherDefaults('MARQUEE')
DefaultScreenshots == <<Asset("def_SCREENSHOTS_0", "DEVICE"), Asset("def_SCREENSHOTS_1", "DEVICE"),
                        Asset("def_SCREENSHOTS_2", "DEVICE")>>
DefaultSmallTiles == <<Asset("st_1", "CENTERED"), Asset("st_2", "CENTERED"), Asset("st_3", "CENTERED")>>
DefaultMarquees == <<Asset("def_MARQUEE_0", "SPLIT")>>

\* the values the position controls send
SentValues == [x |-> 25, showLogo |-> FALSE]
\* Partial<ImagePosition>: a function from some of the fields to their new values
PosUpdates == {[f \in S |-> SentValues[f]] : S \in SUBSET DOMAIN SentValues}
\* the sliders that have a reset button
ResetFields == {"x"}

currentCollection ==
    IF activeTab = "SCREENSHOTS" THEN screenshots
    ELSE IF activeTab = "SMALL_TILE" THEN smallTiles
    ELSE marquees

\* collection[0]?.id || null
FirstId(collection) == IF collection = <<>> THEN NullId ELSE collection[1].id

\* currentCollection.find(s => s.id === activeScreenshotId) || currentCollection[0]
ActiveIndex ==
    IF \E n \in 1..Len(currentCollection) : currentCollection[n].id = activeScreenshotId
    THEN CHOOSE n \in 1..Len(currentCollection) :
            /\ currentCollection[n].id = activeScreenshotId
            /\ \A m \in 1..(n - 1) : currentCollection[m].id # activeScreenshotId
    ELSE IF currentCollection # <<>> THEN 1 ELSE 0

HasActive == ActiveIndex # 0
activeScreenshot == currentCollection[ActiveIndex]

\* activeTab === 'SMALL_TILE' ? 'CENTERED' : activeScreenshot.template
currentTemp == IF activeTab = "SMALL_TILE" THEN "CENTERED" ELSE activeScreenshot.template

getCurrentPosition == activeScreenshot.positions[currentTemp]

\* { ...currentPos, ...posUpdates }
Spread(pos, posUpdates) ==
    [f \in DOMAIN pos |-> IF f \in DOMAIN posUpdates THEN posUpdates[f] ELSE pos[f]]

\* a patch that lands in every template
PatchEveryTemplate(positions, temp, posUpdates) ==
    [t \in DOMAIN positions |-> Spread(positions[t], posUpdates)]

\* { ...activeScreenshot.positions, [currentTemp]: { ...currentPos, ...posUpdates } }
NewPositions(positions, temp, posUpdates) ==
    [positions EXCEPT ![temp] = Spread(positions[temp], posUpdates)]

\* prev.map(s => s.id === updated.id ? updated : s)
MapUpdated(prev, updated) ==
    [n \in 1..Len(prev) |-> IF prev[n].id = updated.id THEN updated ELSE prev[n]]

\* updateCollection: the setter of the active tab's collection
updateCollection(collection) ==
    /\ screenshots' = IF activeTab = "SCREENSHOTS" THEN collection ELSE screenshots
    /\ smallTiles' = IF activeTab = "SMALL_TILE" THEN collection ELSE smallTiles
    /\ marquees' = IF activeTab \notin {"SCREENSHOTS", "SMALL_TILE"} THEN collection ELSE marquees

\* updateActiveScreenshot(updates), `updated` being { ...activeScreenshot, ...updates }
updateActiveScreenshot(updated) ==
    /\ HasActive
    /\ edits < MaxEdits
    /\ edits' = edits + 1
    /\ updateCollection(MapUpdated(currentCollection, updated))
    /\ UNCHANGED <<activeTab, activeScreenshotId, notLayout>>

\* the record of an edit
Edit(op, field) == [op |-> op, tab |-> activeTab, field |-> field]
NoEdit == [op |-> "none", tab |-> "SCREENSHOTS", field |-> "none"]

updateCurrentPosition(posUpdates) ==
    /\ HasActive
    /\ updateActiveScreenshot(
          [activeScreenshot EXCEPT
              !.positions = NewPositions(activeScreenshot.positions, currentTemp, posUpdates)])

LayoutInit ==
    /\ screenshots = DefaultScreenshots
    /\ smallTiles = DefaultSmallTiles
    /\ marquees = DefaultMarquees
    /\ activeTab = "SCREENSHOTS"
    /\ activeScreenshotId = FirstId(DefaultScreenshots)
    /\ edits = 0
    /\ lastEdit = NoEdit

\* a slider moves, or any other caller hands updateCurrentPosition a patch
PatchPosition(posUpdates) ==
    /\ posUpdates \in PosUpdates
    /\ updateCurrentPosition(posUpdates)
    /\ lastEdit' = Edit("patch", "none")

\* a reset to the defaults of the device template only
DeviceDefault(template, field) == DEFAULT_POSITIONS["DEVICE"][field]

\* DEFAULT_POSITIONS[activeScreenshot.template][field]
ResetValue(template, field) == DEFAULT_POSITIONS[template][field]

\* the reset button of a slider
ResetPositionField(field) ==
    /\ HasActive
    /\ updateCurrentPosition(
          [f \in {field} |-> ResetValue(activeScreenshot.template, f)])
    /\ lastEdit' = Edit("reset", field)

\* the Logo and Name toggles
TogglePositionFlag(field) ==
    /\ HasActive
    /\ updateCurrentPosition([f \in {field} |-> ~getCurrentPosition[f]])
    /\ lastEdit' = Edit("toggle", field)

\* a Composition button (the section is not rendered on the small-tile tab)
SwitchTemplate(t) ==
    /\ activeTab # "SMALL_TILE"
    /\ HasActive
    /\ updateActiveScreenshot([activeScreenshot EXCEPT !.template = t])
    /\ lastEdit' = Edit("template", "none")

\* a thumbnail of the current collection is clicked
SelectAsset(n) ==
    /\ n \in 1..Len(currentCollection)
    /\ activeScreenshotId' = currentCollection[n].id
    /\ UNCHANGED <<screenshots, smallTiles, marquees, activeTab, edits, lastEdit, notLayout>>

\* the collection a tab shows
CollectionOf(tab) ==
    IF tab = "SCREENSHOTS" THEN screenshots
    ELSE IF tab = "SMALL_TILE" THEN smallTiles
    ELSE marquees

\* the marquee id of a screenshot id ('mq_' + id) or the screenshot id of a
\* marquee id (id.substring(3)); an id already of the tab's kind is kept
CorrespondingId(tab, id) ==
    IF id = NullId THEN NullId ELSE [id EXCEPT !.mq = (tab = "MARQUEE")]

\* what the tab-switching effect selects
SelectedOnTab(tab) ==
    IF tab # "SMALL_TILE"
       /\ CorrespondingId(tab, activeScreenshotId) # NullId
       /\ \E n \in 1..Len(CollectionOf(tab)) :
             CollectionOf(tab)[n].id = CorrespondingId(tab, activeScreenshotId)
    THEN CorrespondingId(tab, activeScreenshotId)
    ELSE IF CollectionOf(tab) # <<>> THEN FirstId(CollectionOf(tab))
    ELSE activeScreenshotId

\* a tab button: setActiveTab(tab), then the effect on [activeTab]
SwitchTab(tab) ==
    /\ tab # activeTab
    /\ activeTab' = tab
    /\ activeScreenshotId' = SelectedOnTab(tab)
    /\ UNCHANGED <<screenshots, smallTiles, marquees, edits, lastEdit, notLayout>>

----------------------------------------------------------------------------
(* ScreenshotStudio.handleBatchRenderAndComplete *)

\* an export that takes the tabs in the opposite order
MarqueesFirst == <<"MARQUEE", "SMALL_TILE", "SCREENSHOTS">>

\* the order of the three processList calls
BatchOrder == <<"SCREENSHOTS", "SMALL_TILE", "MARQUEE">>

\* a rendered output kept from an earlier export
OldUrl == <<"old">>

\* the n-th asset of a collection the export starts from: every second one
\* still has the output of an earlier export
StoredAsset(base, template, n) ==
    [Asset(base, template) EXCEPT !.renderedUrl = IF n % 2 = 0 THEN OldUrl ELSE <<>>]

\* the ids of stored assets: timestamps, with the marquee prefix for marquees
StoredIds == <<"1700000000001", "1700000000002", "1700000000003", "1700000000004">>

StoredScreenshots(len) ==
    [n \in 1..len |-> StoredAsset(StoredIds[n], "DEVICE", n)]
StoredSmallTiles(len) ==
    [n \in 1..len |-> StoredAsset("st_" \o StoredIds[n], "CENTERED", n + 1)]
StoredMarquees(len) ==
    [n \in 1..len |->
        [StoredAsset(StoredIds[n], "SPLIT", n) EXCEPT !.id = [mq |-> TRUE, base |-> StoredIds[n]]]]

\* what toJpeg(captureRef.current) resolves with: a picture of the canvas, which
\* shows the active asset of the active tab
CanvasUrl == <<"jpeg", activeTab, IF HasActive THEN activeScreenshot.id ELSE NullId>>

BatchIdle ==
    /\ isBatchProcessing = FALSE
    /\ bpc = "idle"
    /\ lists = <<<<>>, <<>>, <<>>>>
    /\ listNo = 1
    /\ itemNo = 1
    /\ results = <<>>
    /\ inFlight = 0
    /\ captureLog = <<>>
    /\ batchSignals = <<>>

\* the studio as it is opened on stored collections
BatchInit ==
    /\ BatchIdle
    /\ \E len \in 0..MaxListLen : screenshots = StoredScreenshots(len)
    /\ \E len \in 0..MaxListLen : smallTiles = StoredSmallTiles(len)
    /\ \E len \in 0..(MaxListLen - 1) : marquees = StoredMarquees(len)
    /\ activeTab = "SCREENSHOTS"
    /\ activeScreenshotId = FirstId(screenshots)
    /\ edits = 0
    /\ lastEdit = NoEdit

\* `list` and `item` of the running processList call
BatchList == lists[listNo]
BatchItem == BatchList[itemNo]

\* Save & Continue (disabled while isBatchProcessing): the handler starts
BatchStart ==
    /\ bpc = "idle"
    /\ ~isBatchProcessing
    /\ isBatchProcessing' = TRUE
    /\ lists' = <<screenshots, smallTiles, marquees>>
    /\ listNo' = 1
    /\ itemNo' = 1
    /\ results' = <<>>
    /\ bpc' = "tab"
    /\ UNCHANGED <<inFlight, captureLog, batchSignals>>
    /\ UNCHANGED <<screenshots, smallTiles, marquees, activeTab, activeScreenshotId, notBatch>>

\* processList(list, type): results = [], setActiveTab(type), the 100 ms wait
\* (the tab-switching effect runs in it)
BatchOpenList ==
    /\ bpc = "tab"
    /\ results' = Append(results, <<>>)
    /\ activeTab' = BatchOrder[listNo]
    /\ activeScreenshotId' =
          IF BatchOrder[listNo] = activeTab THEN activeScreenshotId
          ELSE SelectedOnTab(BatchOrder[listNo])
    /\ itemNo' = 1
    /\ bpc' = "item"
    /\ UNCHANGED <<isBatchProcessing, lists, listNo, inFlight, captureLog, batchSignals>>
    /\ UNCHANGED <<screenshots, smallTiles, marquees, notBatch>>

\* for (const item of list): setActiveScreenshotId(item.id), the 250 ms wait
BatchSelectItem ==
    /\ bpc = "item"
    /\ itemNo <= Len(BatchList)
    /\ activeScreenshotId' = BatchItem.id
    /\ bpc' = "capture"
    /\ UNCHANGED <<isBatchProcessing, lists, listNo, itemNo, results, inFlight, captureLog,
                   batchSignals>>
    /\ UNCHANGED <<screenshots, smallTiles, marquees, activeTab, notBatch>>

\* results.push(pushed), and on to the next item
PushResult(pushed) ==
    /\ results' = [results EXCEPT ![listNo] = Append(results[listNo], pushed)]
    /\ itemNo' = itemNo + 1
    /\ bpc' = "item"

\* if (captureRef.current) toJpeg(...) is called; else results.push(item)
BatchCapture(hasCanvas) ==
    /\ bpc = "capture"
    /\ IF hasCanvas
       THEN /\ inFlight' = inFlight + 1
            /\ bpc' = "capturing"
            /\ UNCHANGED <<results, itemNo, captureLog>>
       ELSE /\ PushResult(BatchItem)
            /\ captureLog' = Append(captureLog,
                  [tab |-> BatchOrder[listNo], id |-> BatchItem.id, end |-> "no canvas"])
            /\ UNCHANGED inFlight
    /\ UNCHANGED <<isBatchProcessing, lists, listNo, batchSignals>>
    /\ UNCHANGED <<screenshots, smallTiles, marquees, activeTab, activeScreenshotId, notBatch>>

\* an asset that loses its rendered output when its capture fails
WithoutOutput(item) == [item EXCEPT !.renderedUrl = <<>>]

\* catch (e) { results.push(item) }
FallbackFor(item) == item

\* await toJpeg(...) settles: results.push({ ...item, renderedUrl: dataUrl }),
\* or the catch block
BatchCaptureSettles(ok) ==
    /\ bpc = "capturing"
    /\ inFlight' = inFlight - 1
    /\ PushResult(IF ok THEN [BatchItem EXCEPT !.renderedUrl = CanvasUrl]
                  ELSE FallbackFor(BatchItem))
    /\ captureLog' = Append(captureLog,
          [tab |-> BatchOrder[listNo], id |-> BatchItem.id,
           end |-> IF ok THEN "rendered" ELSE "failed"])
    /\ UNCHANGED <<isBatchProcessing, lists, listNo, batchSignals>>
    /\ UNCHANGED <<screenshots, smallTiles, marquees, activeTab, activeScreenshotId, notBatch>>

\* the loop of processList is over: return results, and the next call or the end
BatchCloseList ==
    /\ bpc = "item"
    /\ itemNo > Len(BatchList)
    /\ IF listNo < Len(BatchOrder)
       THEN listNo' = listNo + 1 /\ bpc' = "tab"
       ELSE listNo' = listNo /\ bpc' = "finish"
    /\ UNCHANGED <<isBatchProcessing, lists, itemNo, results, inFlight, captureLog, batchSignals>>
    /\ UNCHANGED <<screenshots, smallTiles, marquees, activeTab, activeScreenshotId, notBatch>>

\* the three setters, onStatusChange, setIsBatchProcessing(false), onComplete()
BatchFinish ==
    /\ bpc = "finish"
    /\ screenshots' = results[1]
    /\ smallTiles' = results[2]
    /\ marquees' = results[3]
    /\ batchSignals' = batchSignals \o <<"onStatusChange", "onComplete">>
    /\ isBatchProcessing' = FALSE
    /\ bpc' = "done"
    /\ UNCHANGED <<lists, listNo, itemNo, results, inFlight, captureLog>>
    /\ UNCHANGED <<activeTab, activeScreenshotId, notBatch>>

----------------------------------------------------------------------------
(* App: updateActiveProject and the debounced save effect.  A project's    *)
(* state is the number of updates it has had.  A timer that is still in    *)
(* `timers` was set less than 1000 ms ago; it fires when that time is up.   *)

ProjectIds == {"p1", "p2"}
NoProject == "null"

\* const [projects, ...] after the load at mount: what the store holds
PersistIdle ==
    /\ projects = [id \in ProjectIds |-> 0]
    /\ currentProjectId = NoProject
    /\ timers = {}
    /\ saveTimeoutRef = 0
    /\ timerCount = 0
    /\ store = [id \in ProjectIds |-> 0]
    /\ writes = <<>>
    /\ storeFailed = FALSE

\* a cleanup that leaves the pending timer alone
KeepTimeout(pending, ref) == pending

\* if (saveTimeoutRef.current) clearTimeout(saveTimeoutRef.current)
ClearTimeout(pending, ref) == {t \in pending : t.no # ref}

\* the effect on [activeProject], run for a render in which activeProject is
\* project `id` in state `version`: the cleanup of the previous run, then
\* saveTimeoutRef.current = setTimeout(() => saveProject(activeProject), 1000)
ArmSave(id, version) ==
    /\ timerCount' = timerCount + 1
    /\ saveTimeoutRef' = timerCount + 1
    /\ timers' = ClearTimeout(timers, saveTimeoutRef)
                    \cup {[no |-> timerCount + 1, id |-> id, version |-> version]}

\* the same effect for a render in which activeProject is undefined: the
\* cleanup only
DisarmSave ==
    /\ timers' = ClearTimeout(timers, saveTimeoutRef)
    /\ UNCHANGED <<saveTimeoutRef, timerCount>>

\* updateActiveProject(updates), from any step handler, and the render after it
UpdateActiveProject ==
    /\ currentProjectId # NoProject
    /\ timerCount < MaxTimers
    /\ projects' = [projects EXCEPT ![currentProjectId] = @ + 1]
    /\ ArmSave(currentProjectId, projects[currentProjectId] + 1)
    /\ UNCHANGED <<currentProjectId, store, writes, storeFailed, notPersist>>

\* handleOpenProject(id), from the dashboard
HandleOpenProject(id) ==
    /\ currentProjectId = NoProject
    /\ timerCount < MaxTimers
    /\ currentProjectId' = id
    /\ ArmSave(id, projects[id])
    /\ UNCHANGED <<projects, store, writes, storeFailed, notPersist>>

\* handleNavigate(AppStep.DASHBOARD)
HandleNavigateDashboard ==
    /\ currentProjectId # NoProject
    /\ currentProjectId' = NoProject
    /\ DisarmSave
    /\ UNCHANGED <<projects, store, writes, storeFailed, notPersist>>

\* the timer's callback: projectService.saveProject(activeProject), which
\* replaces the store's copy under project.id or logs the error
SaveTimerFires(ok) ==
    \E t \in timers :
        /\ timers' = timers \ {t}
        /\ IF ok
           THEN /\ store' = [store EXCEPT ![t.id] = t.version]
                /\ writes' = Append(writes, [id |-> t.id, version |-> t.version])
                /\ UNCHANGED storeFailed
           ELSE /\ storeFailed' = TRUE
                /\ UNCHANGED <<store, writes>>
        /\ UNCHANGED <<projects, currentProjectId, saveTimeoutRef, timerCount, notPersist>>

----------------------------------------------------------------------------
(* BrandView.handleUnifiedGeneration, handleSelectVariant, generateIconSizes *)

Branches == 1..4
IconSizes == <<128, 48, 32, 16>>
NoIndex == -1
NoAssetError == <<>>
DraftFirstMessage == <<"Please draft a prompt first using the 'Draft Prompt' button.">>
\* e.message || "Failed to generate assets"
GenerationErrors == {<<"No image generated">>, <<"Failed to generate assets">>}

\* the image a branch resolves with
VariantOf(i) == <<"variant", i>>

\* the state at mount
BrandIdle ==
    /\ gpc = "idle"
    /\ branches = [i \in Branches |-> "none"]
    /\ iconVariants = <<>>
    /\ selectedIconIndex = NoIndex
    /\ resizedIcons = <<>>
    /\ isGeneratingAssets = FALSE
    /\ assetError = NoAssetError

\* an aggregation that waits for every branch and keeps those that succeeded
RECURSIVE Succeeded(_, _)
Succeeded(bs, n) ==
    IF n = 0 THEN <<>>
    ELSE IF bs[n] = "ok" THEN Append(Succeeded(bs, n - 1), VariantOf(n))
    ELSE Succeeded(bs, n - 1)
AllSettled(bs) ==
    IF \E i \in Branches : bs[i] = "pending"
    THEN [state |-> "pending", value |-> <<>>]
    ELSE IF \A i \in Branches : bs[i] = "failed"
    THEN [state |-> "rejected", value |-> <<>>]
    ELSE [state |-> "fulfilled", value |-> Succeeded(bs, 4)]

\* Promise.all over the four branches: rejected as soon as one branch is,
\* fulfilled with every result, in order, once all are
PromiseAll(bs) ==
    IF \E i \in Branches : bs[i] = "failed"
    THEN [state |-> "rejected", value |-> <<>>]
    ELSE IF \A i \in Branches : bs[i] = "ok"
    THEN [state |-> "fulfilled", value |-> [i \in Branches |-> VariantOf(i)]]
    ELSE [state |-> "pending", value |-> <<>>]

\* generateIconSizes(originalUrl): one asset per size, or none if the image
\* does not load
ResizedFrom(originalUrl, loaded) ==
    IF loaded
    THEN [k \in 1..Len(IconSizes) |-> [id |-> IconSizes[k], url |-> originalUrl]]
    ELSE <<>>

\* handleUnifiedGeneration with no prompt drafted
GenerationWithoutPrompt ==
    /\ gpc = "idle"
    /\ ~isGeneratingAssets
    /\ assetError' = DraftFirstMessage
    /\ UNCHANGED <<gpc, branches, iconVariants, selectedIconIndex, resizedIcons,
                   isGeneratingAssets, notBrand>>

\* handleUnifiedGeneration up to the await of Promise.all
GenerationStart ==
    /\ gpc = "idle"
    /\ ~isGeneratingAssets
    /\ isGeneratingAssets' = TRUE
    /\ assetError' = NoAssetError
    /\ iconVariants' = <<>>
    /\ selectedIconIndex' = NoIndex
    /\ resizedIcons' = <<>>
    /\ branches' = [i \in Branches |-> "pending"]
    /\ gpc' = "awaiting"
    /\ UNCHANGED notBrand

\* one generateImageFromPrompt call settles
BranchSettles(i, ok) ==
    /\ gpc = "awaiting"
    /\ branches[i] = "pending"
    /\ branches' = [branches EXCEPT ![i] = IF ok THEN "ok" ELSE "failed"]
    /\ UNCHANGED <<gpc, iconVariants, selectedIconIndex, resizedIcons,
                   isGeneratingAssets, assetError, notBrand>>

\* the await throws: catch and finally
GenerationRejected(message) ==
    /\ gpc = "awaiting"
    /\ PromiseAll(branches).state = "rejected"
    /\ assetError' = message
    /\ isGeneratingAssets' = FALSE
    /\ gpc' = "idle"
    /\ UNCHANGED <<branches, iconVariants, selectedIconIndex, resizedIcons, notBrand>>

\* the await returns: setIconVariants(results), setSelectedIconIndex(0)
GenerationFulfilled ==
    /\ gpc = "awaiting"
    /\ PromiseAll(branches).state = "fulfilled"
    /\ iconVariants' = PromiseAll(branches).value
    /\ selectedIconIndex' = 0
    /\ gpc' = "resizing"
    /\ UNCHANGED <<branches, resizedIcons, isGeneratingAssets, assetError, notBrand>>

\* await generateIconSizes(results[0]), then finally
GenerationResized(loaded) ==
    /\ gpc = "resizing"
    /\ resizedIcons' = ResizedFrom(iconVariants[1], loaded)
    /\ isGeneratingAssets' = FALSE
    /\ gpc' = "idle"
    /\ UNCHANGED <<branches, iconVariants, selectedIconIndex, assetError, notBrand>>

\* handleSelectVariant(index), from a click on a variant that is shown
HandleSelectVariant(index, loaded) ==
    /\ gpc = "idle"
    /\ index < Len(iconVariants)
    /\ selectedIconIndex' = index
    /\ resizedIcons' = ResizedFrom(iconVariants[index + 1], loaded)
    /\ UNCHANGED <<gpc, branches, iconVariants, isGeneratingAssets, assetError, notBrand>>

----------------------------------------------------------------------------
(* generateBrandIdentity: the colors of the returned BrandIdentity *)

ColorSlots == {"primary1", "primary2", "accent1", "accent2", "neutral_white",
               "neutral_black", "neutral_gray", "highlight_neon"}

\* the right-hand sides of the || in the return statement
SlotDefault(slot) ==
    CASE slot = "primary1" -> <<"#", "c", "0", "f", "4", "2", "5">>
      [] slot = "primary2" -> <<"#", "a", "3", "d", "6", "1", "5">>
      [] slot = "accent1" -> <<"#", "f", "f", "f", "f", "f", "f">>
      [] slot = "accent2" -> <<"#", "f", "0", "f", "0", "f", "0">>
      [] slot = "neutral_white" -> <<"#", "f", "f", "f", "f", "f", "f">>
      [] slot = "neutral_black" -> <<"#", "1", "6", "1", "8", "1", "1">>
      [] slot = "neutral_gray" -> <<"#", "8", "8", "8", "8", "8", "8">>
      [] slot = "highlight_neon" -> <<"#", "0", "0", "f", "f", "c", "c">>

\* a value the model supplied as asked
GoodColor == <<"#", "1", "a", "2", "b", "3", "c">>
\* what else parseJSON hands over for a slot: nothing, "", a 3-digit and a
\* 7-digit value (parseJSON has cut every run of 6 + MinExtraHex digits or
\* more down to its first 6)
OddColors ==
    {Undefined, <<>>, <<"#", "f", "f", "f">>,
     <<"#", "0", "0", "0", "0", "0", "0", "0">>}

\* value || default: undefined and '' are falsy, every other string is kept
OrDefault(value, default) ==
    IF value = Undefined \/ value = <<>> THEN default ELSE value

\* parsed.colors?.slot
OptionalSlot(colors, slot) == IF colors = Undefined THEN Undefined ELSE colors[slot]

\* the colors object of the return statement
ReturnedColors(colors) ==
    [slot \in ColorSlots |-> OrDefault(OptionalSlot(colors, slot), SlotDefault(slot))]

IdentityIdle ==
    /\ ipc = "idle"
    /\ parsedColors = Undefined
    /\ identityColors = Undefined

\* after parseJSON(response.text)
IdentityInit ==
    /\ ipc = "parsed"
    /\ \/ parsedColors = Undefined
       \/ \E odd \in SUBSET ColorSlots :
             /\ Cardinality(odd) <= MaxOddSlots
             /\ \E values \in [odd -> OddColors] :
                   parsedColors = [slot \in ColorSlots |->
                                      IF slot \in odd THEN values[slot] ELSE GoodColor]
    /\ identityColors = Undefined

\* the return statement
IdentityReturn ==
    /\ ipc = "parsed"
    /\ identityColors' = ReturnedColors(parsedColors)
    /\ ipc' = "returned"
    /\ UNCHANGED <<parsedColors, notIdentity>>

----------------------------------------------------------------------------
(* generateImageFromPrompt *)

\* the parts of a response; a part without inlineData has NoInlineData there
NoInlineData == [mimeType |-> "undefined", data |-> "undefined"]
TextPart == [inlineData |-> NoInlineData, text |-> <<"Here is your icon">>]
ImagePart(mimeType, data) ==
    [inlineData |-> [mimeType |-> mimeType, data |-> data], text |-> Undefined]

\* response.candidates?.[0]?.content?.parts || [], for the responses of the
\* image model: no candidate, text only, and an image before or after a text
ImageResponses ==
    {[parts |-> <<>>],
     [parts |-> <<TextPart>>],
     [parts |-> <<ImagePart("image/png", "iVBOR")>>],
     [parts |-> <<TextPart, ImagePart("image/jpeg", "/9j/4"), ImagePart("image/png", "iVBOR")>>]}
ImageOutcomes ==
    {Resolved(r) : r \in ImageResponses} \cup {Rejected(e) : e \in RemoteErrors}

NoImageGenerated == <<"No image generated">>
NoUrl == <<>>

\* the for loop: the position of the first part with inlineData, 0 if none
RECURSIVE FirstInline(_, _)
FirstInline(parts, from) ==
    IF from > Len(parts) THEN 0
    ELSE IF parts[from].inlineData # NoInlineData THEN from
    ELSE FirstInline(parts, from + 1)

\* `data:${part.inlineData.mimeType};base64,${part.inlineData.data}`
DataUrl(part) == <<"data:", part.inlineData.mimeType, ";base64,", part.inlineData.data>>

ImageIdle ==
    /\ imgpc = "idle"
    /\ imageUrl = NoUrl
    /\ imageError = <<>>

\* the call, up to `await retry(...)`
ImageCalled ==
    /\ imgpc = "awaiting"
    /\ imageUrl = NoUrl
    /\ imageError = <<>>

\* retry returned: the for loop, then the throw after the try statement
ImageOnResponse ==
    /\ imgpc = "awaiting"
    /\ rpc = "returned"
    /\ IF FirstInline(settled.resp.parts, 1) # 0
       THEN /\ imageUrl' = DataUrl(settled.resp.parts[FirstInline(settled.resp.parts, 1)])
            /\ imgpc' = "returned"
            /\ UNCHANGED imageError
       ELSE /\ imageError' = NoImageGenerated
            /\ imgpc' = "thrown"
            /\ UNCHANGED imageUrl
    /\ UNCHANGED <<retryVars, notImage>>

\* retry threw: catch (e) { console.error("failed", e) }, then the throw after
\* the try statement
ImageOnError ==
    /\ imgpc = "awaiting"
    /\ rpc = "thrown"
    /\ imageError' = NoImageGenerated
    /\ imgpc' = "thrown"
    /\ UNCHANGED <<imageUrl, retryVars, notImage>>

----------------------------------------------------------------------------
(* ScreenshotStudio.renderTextContent: the headline and its highlight.     *)
(* The characters are two cases of a letter, a space and the quantifier +  *)
(* of a regular expression.                                                *)

HeadlineChars == {"a", "A", " ", "+"}

\* String.prototype.toLowerCase
ToLowerChar(c) == IF c = "A" THEN "a" ELSE c
ToLowerCase(s) == [i \in 1..Len(s) |-> ToLowerChar(s[i])]

\* String.prototype.includes
IncludesText(s, t) == \E i \in 1..(Len(s) + 1) : StartsWithAt(s, i, t)

\* new RegExp(source, 'gi') for a source of letters, spaces and +: the atoms
\* of the pattern, or a SyntaxError where a + has nothing to repeat
RECURSIVE CompileFrom(_, _, _)
CompileFrom(source, i, atoms) ==
    IF i > Len(source) THEN [ok |-> TRUE, atoms |-> atoms]
    ELSE IF source[i] = "+"
    THEN IF atoms = <<>> \/ atoms[Len(atoms)].plus
         THEN [ok |-> FALSE, atoms |-> <<>>]
         ELSE CompileFrom(source, i + 1, [atoms EXCEPT ![Len(atoms)].plus = TRUE])
    ELSE CompileFrom(source, i + 1,
                     Append(atoms, [ch |-> ToLowerChar(source[i]), plus |-> FALSE]))
\* the pattern `(${highlight})`: the group adds no atom
RegExpOf(highlight) == CompileFrom(highlight, 1, <<>>)

\* how many characters of s from position i on are ch, whatever their case
RECURSIVE RunOf(_, _, _)
RunOf(s, i, ch) ==
    IF i <= Len(s) /\ ToLowerChar(s[i]) = ch THEN 1 + RunOf(s, i + 1, ch) ELSE 0

\* the match of atoms k.. at position i of s: the position after it, 0 if
\* there is none; a + takes as many characters as the rest allows
RECURSIVE MatchEnd(_, _, _, _)
RECURSIVE MatchPlus(_, _, _, _, _)
MatchEnd(atoms, k, s, i) ==
    IF k > Len(atoms) THEN i
    ELSE IF atoms[k].plus THEN MatchPlus(atoms, k, s, i, RunOf(s, i, atoms[k].ch))
    ELSE IF i <= Len(s) /\ ToLowerChar(s[i]) = atoms[k].ch
    THEN MatchEnd(atoms, k + 1, s, i + 1)
    ELSE 0
MatchPlus(atoms, k, s, i, m) ==
    IF m = 0 THEN 0
    ELSE IF MatchEnd(atoms, k + 1, s, i + m) # 0 THEN MatchEnd(atoms, k + 1, s, i + m)
    ELSE MatchPlus(atoms, k, s, i, m - 1)

\* String.prototype.split with a global pattern of one capturing group: the
\* text before each match and the match, then the rest
RECURSIVE SplitFrom(_, _, _, _, _)
SplitFrom(atoms, s, p, q, parts) ==
    IF q > Len(s) THEN Append(parts, SubSeq(s, p, Len(s)))
    ELSE IF MatchEnd(atoms, 1, s, q) = 0 THEN SplitFrom(atoms, s, p, q + 1, parts)
    ELSE SplitFrom(atoms, s, MatchEnd(atoms, 1, s, q), MatchEnd(atoms, 1, s, q),
                   parts \o <<SubSeq(s, p, q - 1), SubSeq(s, q, MatchEnd(atoms, 1, s, q) - 1)>>)
Split(s, atoms) == SplitFrom(atoms, s, 1, 1, <<>>)

\* activeScreenshot.highlightText?.trim()
TrimmedHighlight(t) == IF t = Undefined THEN Undefined ELSE Trim(t)

\* the condition of the if statement
HasHighlight(fullText, highlight) ==
    /\ highlight # Undefined
    /\ highlight # <<>>
    /\ IncludesText(ToLowerCase(fullText), ToLowerCase(highlight))

\* parts.map(...): a part that equals the highlight, whatever its case, is
\* the emphasized span
SpansOf(parts, highlight) ==
    [i \in 1..Len(parts) |->
        [text |-> parts[i],
         emphasized |-> ToLowerCase(parts[i]) = ToLowerCase(highlight)]]

\* headlineContent = fullText
Plain(fullText) == <<[text |-> fullText, emphasized |-> FALSE]>>

RenderIdle ==
    /\ headline = <<>>
    /\ highlightText = Undefined
    /\ rtpc = "idle"
    /\ headlineContent = <<>>

RenderInit ==
    /\ headline \in SeqsUpTo(HeadlineChars, MaxHeadlineLen)
    /\ highlightText \in SeqsUpTo(HeadlineChars, MaxHighlightLen) \cup {Undefined}
    /\ rtpc = "called"
    /\ headlineContent = <<>>

\* the headline has no highlight in it
RenderPlain ==
    /\ rtpc = "called"
    /\ ~HasHighlight(headline, TrimmedHighlight(highlightText))
    /\ headlineContent' = Plain(headline)
    /\ rtpc' = "rendered"
    /\ UNCHANGED <<headline, highlightText, notRender>>

\* the headline is split around the highlight
RenderHighlighted ==
    /\ rtpc = "called"
    /\ HasHighlight(headline, TrimmedHighlight(highlightText))
    /\ RegExpOf(TrimmedHighlight(highlightText)).ok
    /\ headlineContent' =
          SpansOf(Split(headline, RegExpOf(TrimmedHighlight(highlightText)).atoms),
                  TrimmedHighlight(highlightText))
    /\ rtpc' = "rendered"
    /\ UNCHANGED <<headline, highlightText, notRender>>

\* new RegExp throws a SyntaxError
RenderThrows ==
    /\ rtpc = "called"
    /\ HasHighlight(headline, TrimmedHighlight(highlightText))
    /\ ~RegExpOf(TrimmedHighlight(highlightText)).ok
    /\ rtpc' = "thrown"
    /\ UNCHANGED <<headline, highlightText, headlineContent, notRender>>

----------------------------------------------------------------------------
(* FinalizeView.handleDownloadPackage.  A file of the archive is its       *)
(* folder, the fixed part of its name, the number in its name and its      *)
(* content.                                                                *)

NoRender == <<>>
Subsets == {"undefined", "ICONS", "BANNERS"}

\* an asset of the studio with or without a rendered output
ProjectAsset(kind, n, rendered) ==
    [renderedUrl |-> IF rendered THEN <<"jpeg", kind, n>> ELSE NoRender]
\* the lists of up to n assets of a kind
AssetLists(kind, n) ==
    {<<>>}
    \cup UNION {{[i \in 1..len |-> ProjectAsset(kind, i, flags[i])] :
                     flags \in [1..len -> BOOLEAN]} : len \in 1..n}

\* what BrandView.handleComplete passes on: the main icon and the resized icons
MainIcon == [usage |-> "ICON_MAIN", dimensions |-> 1024, url |-> <<"png", 1024>>]
ResizedIcon(size) == [usage |-> "ICON_RESIZED", dimensions |-> size, url |-> <<"png", size>>]
GeneratedAssetLists ==
    {<<>>, <<MainIcon>>,
     <<MainIcon, ResizedIcon(128), ResizedIcon(48), ResizedIcon(32), ResizedIcon(16)>>}

File(folder, stem, no, content) ==
    [folder |-> folder, stem |-> stem, no |-> no, content |-> content]

\* folder.file(name, data): a file of that name is replaced
AddFile(files, f) ==
    {g \in files : <<g.folder, g.stem, g.no>> # <<f.folder, f.stem, f.no>>} \cup {f}

\* 1. the text assets
TextFiles ==
    {File("text_assets", stem, 0, <<>>) :
        stem \in {"product_title.txt", "short_description.txt", "long_description.txt",
                  "privacy_policy.txt", "keywords.txt", "metadata.json"}}

\* generatedAssets.find(a => a.usage === 'ICON_MAIN'): its position, 0 if none
RECURSIVE FindMain(_, _)
FindMain(assets, from) ==
    IF from > Len(assets) THEN 0
    ELSE IF assets[from].usage = "ICON_MAIN" THEN from
    ELSE FindMain(assets, from + 1)

\* 2. the icons: the files the forEach over the resized icons adds, then all
RECURSIVE ResizedFiles(_, _, _)
ResizedFiles(assets, n, files) ==
    IF n > Len(assets) THEN files
    ELSE IF assets[n].usage = "ICON_RESIZED"
    THEN ResizedFiles(assets, n + 1,
                      AddFile(files, File("icons", "icon_", assets[n].dimensions, assets[n].url)))
    ELSE ResizedFiles(assets, n + 1, files)
IconFiles(assets) ==
    ResizedFiles(assets, 1,
                 IF FindMain(assets, 1) = 0 THEN {}
                 ELSE {File("icons", "icon_main_1024.png", 0, assets[FindMain(assets, 1)].url)})

\* an export that takes every asset of the list
EveryAsset(list, folder, stem) ==
    {File(folder, stem, i, list[i].renderedUrl) : i \in 1..Len(list)}

\* 3. list.forEach((m, i) => { if (m.renderedUrl) folder.file(`${stem}${i + 1}.jpg`, ...) })
RenderedFiles(list, folder, stem) ==
    {File(folder, stem, i, list[i].renderedUrl) :
        i \in {j \in 1..Len(list) : list[j].renderedUrl # NoRender}}

\* the files in the JSZip object when generateAsync is called
PackageFiles(p, subset) ==
    (IF subset = "undefined" THEN TextFiles ELSE {})
    \cup (IF subset \in {"undefined", "ICONS"} THEN IconFiles(p.generatedAssets) ELSE {})
    \cup (IF subset \in {"undefined", "BANNERS"}
          THEN RenderedFiles(p.marquees, "promo_graphics", "marquee_")
               \cup RenderedFiles(p.smallTiles, "promo_graphics", "small_promo_")
               \cup RenderedFiles(p.screenshots, "screenshots", "screenshot_")
          ELSE {})

NoProjectData ==
    [screenshots |-> <<>>, smallTiles |-> <<>>, marquees |-> <<>>, generatedAssets |-> <<>>]

ZipIdle ==
    /\ project = NoProjectData
    /\ isZipping = FALSE
    /\ zip = {}
    /\ zipSubset = "undefined"
    /\ saved = <<>>
    /\ alerts = 0

\* the view is mounted with a project
ZipInit ==
    /\ project \in [screenshots : AssetLists("screenshot", MaxListLen),
                    smallTiles : AssetLists("smallTile", MaxListLen),
                    marquees : AssetLists("marquee", MaxListLen - 1),
                    generatedAssets : GeneratedAssetLists]
    /\ isZipping = FALSE
    /\ zip = {}
    /\ zipSubset = "undefined"
    /\ saved = <<>>
    /\ alerts = 0

\* handleDownloadPackage(subset), up to `await zip.generateAsync(...)`
HandleDownloadPackage(subset) ==
    /\ ~isZipping
    /\ Len(saved) + alerts < MaxDownloads
    /\ isZipping' = TRUE
    /\ zipSubset' = subset
    /\ zip' = PackageFiles(project, subset)
    /\ UNCHANGED <<project, saved, alerts, notZip>>

\* generateAsync settles: saveAs(content, name), or the alert; then finally
ZipGenerated(ok) ==
    /\ isZipping
    /\ IF ok
       THEN saved' = Append(saved, [subset |-> zipSubset, files |-> zip]) /\ UNCHANGED alerts
       ELSE alerts' = alerts + 1 /\ UNCHANGED saved
    /\ isZipping' = FALSE
    /\ UNCHANGED <<project, zip, zipSubset, notZip>>

----------------------------------------------------------------------------
(* projectService: getAllProjects, saveProject and deleteProject, on the   *)
(* localStorage fallback and on the remote table.  Every operation is made *)
(* on both; a project is its id and the number of the save that wrote it.  *)

\* the ids of the projects saved and deleted
StoredIdsOf == ProjectIds \cup {"p3"}

StoreIdle ==
    /\ localProjects = <<>>
    /\ remoteRows = {}
    /\ dbClock = 0
    /\ dbOps = 0

\* projects.findIndex(p => p.id === id): the position, 0 if none
RECURSIVE FindIndex(_, _, _)
FindIndex(list, id, from) ==
    IF from > Len(list) THEN 0
    ELSE IF list[from].id = id THEN from
    ELSE FindIndex(list, id, from + 1)

\* saveProject without supabase
LocalSave(list, p) ==
    IF FindIndex(list, p.id, 1) # 0
    THEN [list EXCEPT ![FindIndex(list, p.id, 1)] = p]
    ELSE <<p>> \o list

\* projects.filter(p => p.id !== projectId)
RECURSIVE LocalDelete(_, _)
LocalDelete(list, id) ==
    IF list = <<>> THEN <<>>
    ELSE IF Head(list).id = id THEN LocalDelete(Tail(list), id)
    ELSE <<Head(list)>> \o LocalDelete(Tail(list), id)

\* upsert({id, state, updated_at}, {onConflict: 'id'})
Upsert(rows, p, now) ==
    {r \in rows : r.id # p.id} \cup {[id |-> p.id, state |-> p, updated_at |-> now]}

\* delete().eq('id', projectId)
RemoteDelete(rows, id) == {r \in rows : r.id # id}

\* select('state').order('updated_at', {ascending: false}), then the map
RECURSIVE OrderedStates(_)
OrderedStates(rows) ==
    IF rows = {} THEN <<>>
    ELSE <<(CHOOSE r \in rows : \A q \in rows : q.updated_at <= r.updated_at).state>>
         \o OrderedStates(rows \ {CHOOSE r \in rows : \A q \in rows : q.updated_at <= r.updated_at})

\* getAllProjects, without and with supabase
GetAllLocal == localProjects
GetAllRemote == OrderedStates(remoteRows)

\* saveProject(project)
SaveProject(id) ==
    /\ dbOps < MaxStoreOps
    /\ dbOps' = dbOps + 1
    /\ dbClock' = dbClock + 1
    /\ localProjects' = LocalSave(localProjects, [id |-> id, rev |-> dbOps + 1])
    /\ remoteRows' = Upsert(remoteRows, [id |-> id, rev |-> dbOps + 1], dbClock + 1)
    /\ UNCHANGED notStore

\* deleteProject(projectId)
DeleteProject(id) ==
    /\ dbOps < MaxStoreOps
    /\ dbOps' = dbOps + 1
    /\ dbClock' = dbClock + 1
    /\ localProjects' = LocalDelete(localProjects, id)
    /\ remoteRows' = RemoteDelete(remoteRows, id)
    /\ UNCHANGED notStore

----------------------------------------------------------------------------
(* The free-text generators: generateStoreListing, generatePrivacyPolicy   *)
(* and enhancePrivacyPolicy, from the response on                          *)

TextFns == {"generateStoreListing", "generatePrivacyPolicy", "enhancePrivacyPolicy"}

Markdown == <<"m", "a", "r", "k", "d", "o", "w", "n">>
FailedDescription == <<"Failed to generate description.">>
FailedPolicy == <<"Failed.">>

\* what the model answers: a body, bare or wrapped in a code fence with the
\* tag markdown, another tag or none, with or without the line breaks
Bodies == {<<"H", "i">>, <<"#", " ", "P">>}
FenceOpeners == {<<>>, Fence, Fence \o Markdown, Fence \o <<"m", "d">>, Fence \o <<"t", "x", "t">>}
FenceClosers == {<<>>, Fence, <<NL>> \o Fence, <<NL>> \o Fence \o <<NL>>}
ResponseTexts ==
    {o \o b \o c : o \in FenceOpeners, b \in Bodies, c \in FenceClosers}
    \cup {o \o <<NL>> \o b \o c : o \in FenceOpeners \ {<<>>}, b \in Bodies, c \in FenceClosers}
    \cup {Undefined, <<>>}

\* text.replace(/^BT BT BT markdown\n?/, '')
StripOpening(s) ==
    IF StartsWithAt(s, 1, Fence \o Markdown)
    THEN IF StartsWithAt(s, 12, <<NL>>) THEN SubSeq(s, 13, Len(s)) ELSE SubSeq(s, 12, Len(s))
    ELSE s

\* text.replace(/\n?BT BT BT$/, '')
StripClosing(s) ==
    IF Len(s) >= 3 /\ StartsWithAt(s, Len(s) - 2, Fence)
    THEN IF Len(s) >= 4 /\ s[Len(s) - 3] = NL
         THEN SubSeq(s, 1, Len(s) - 4)
         ELSE SubSeq(s, 1, Len(s) - 3)
    ELSE s

\* response.text || fallback
TextOr(t, fallback) == IF t = Undefined \/ t = <<>> THEN fallback ELSE t

\* the return statements of the three functions
ReturnedBy(fn, t) ==
    IF fn = "generateStoreListing"
    THEN TextOr(t, FailedDescription)
    ELSE Trim(StripClosing(StripOpening(TextOr(t, FailedPolicy))))

FreeTextIdle ==
    /\ fpc = "idle"
    /\ textFn = "generateStoreListing"
    /\ responseText = Undefined
    /\ returnedText = <<>>

FreeTextInit ==
    /\ fpc = "responded"
    /\ textFn \in TextFns
    /\ responseText \in ResponseTexts
    /\ returnedText = <<>>

FreeTextReturn ==
    /\ fpc = "responded"
    /\ returnedText' = ReturnedBy(textFn, responseText)
    /\ fpc' = "returned"
    /\ UNCHANGED <<textFn, responseText, notFreeText>>

----------------------------------------------------------------------------
(* ShortDescriptionView: the candidates, their order and the selection.    *)
(* The text of a candidate is its place in the response and its length.    *)

ShortDescriptionLimit == 132
TopPickScore == 90

Candidate(no, length, score) == [text |-> [no |-> no, length |-> length], score |-> score]
NoDesc == Candidate(0, 0, 0)

\* the lengths and scores the model answers with: nothing in the code
\* constrains them
CandidateKinds ==
    {[length |-> 100, score |-> 95], [length |-> 140, score |-> 91],
     [length |-> 132, score |-> 90], [length |-> 131, score |-> 91]}
ResultLists ==
    UNION {{[i \in 1..len |-> Candidate(i, kinds[i].length, kinds[i].score)] :
               kinds \in [1..len -> CandidateKinds]} : len \in 0..MaxCandidates}

\* a render that leaves the candidates in the order of the response
Unsorted(list) == list

\* descriptions.sort((a, b) => b.score - a.score): a stable sort
RECURSIVE InsertByScore(_, _)
InsertByScore(sorted, d) ==
    IF sorted = <<>> THEN <<d>>
    ELSE IF d.score - Head(sorted).score > 0 THEN <<d>> \o sorted
    ELSE <<Head(sorted)>> \o InsertByScore(Tail(sorted), d)
RECURSIVE SortFrom(_, _, _)
SortFrom(list, n, sorted) ==
    IF n > Len(list) THEN sorted ELSE SortFrom(list, n + 1, InsertByScore(sorted, list[n]))
SortedByScore(list) == SortFrom(list, 1, <<>>)

\* .map((desc, idx) => ...): the badge is rendered for idx === 0 && desc.score > 90
CardsOf(list) ==
    [idx \in 1..Len(list) |->
        [desc |-> list[idx], topPick |-> idx = 1 /\ list[idx].score > TopPickScore]]

ShortDescriptionIdle ==
    /\ sdpc = "idle"
    /\ descriptions = <<>>
    /\ cards = <<>>
    /\ selectedDesc = NoDesc
    /\ selectedShortDescription = NoDesc

\* mounted without saved descriptions: the effect has called
\* generateShortDescriptions
ShortDescriptionInit ==
    /\ sdpc = "loading"
    /\ descriptions = <<>>
    /\ cards = <<>>
    /\ selectedDesc = NoDesc
    /\ selectedShortDescription = NoDesc

\* generateShortDescriptions returns: setDescriptions(results), and the
\* render sorts the array in place
DescriptionsArrive(scored) ==
    /\ sdpc = "loading"
    /\ descriptions' = SortedByScore(scored)
    /\ cards' = CardsOf(SortedByScore(scored))
    /\ sdpc' = "shown"
    /\ UNCHANGED <<selectedDesc, selectedShortDescription, notShortDescription>>

\* generateShortDescriptions throws: catch, finally
DescriptionsFail ==
    /\ sdpc = "loading"
    /\ sdpc' = "shown"
    /\ UNCHANGED <<descriptions, cards, selectedDesc, selectedShortDescription,
                   notShortDescription>>

HandleRegenerate ==
    /\ sdpc = "shown"
    /\ selectedDesc' = NoDesc
    /\ sdpc' = "loading"
    /\ UNCHANGED <<descriptions, cards, selectedShortDescription, notShortDescription>>

\* onClick={() => setSelected(desc)}
SelectCard(idx) ==
    /\ sdpc = "shown"
    /\ idx <= Len(cards)
    /\ selectedDesc' = cards[idx].desc
    /\ UNCHANGED <<sdpc, descriptions, cards, selectedShortDescription, notShortDescription>>

\* onClick={() => selected && onDescriptionSelected(selected)}, then
\* handleShortDescriptionSelected
DeployShortDescription ==
    /\ sdpc = "shown"
    /\ selectedDesc # NoDesc
    /\ selectedShortDescription' = selectedDesc
    /\ sdpc' = "confirmed"
    /\ UNCHANGED <<descriptions, cards, selectedDesc, notShortDescription>>

----------------------------------------------------------------------------
(* analyzeProjectInput: the input text placed in the request.  A text of   *)
(* tens of thousands of characters is written as runs: <<[ch, count], ..>> *)
(* with count > 0 and neighbouring runs of different characters.           *)

MaxInputLength == 25000

Run(ch, count) == [ch |-> ch, count |-> count]

RECURSIVE Length(_)
Length(str) == IF str = <<>> THEN 0 ELSE Head(str).count + Length(Tail(str))

\* the character at position i, counted from 1
RECURSIVE CharAt(_, _)
CharAt(str, i) ==
    IF str = <<>> THEN "undefined"
    ELSE IF i <= Head(str).count THEN Head(str).ch
    ELSE CharAt(Tail(str), i - Head(str).count)

\* input.substring(0, end)
RECURSIVE Substring(_, _)
Substring(str, end) ==
    IF str = <<>> \/ end <= 0 THEN <<>>
    ELSE IF Head(str).count >= end THEN <<Run(Head(str).ch, end)>>
    ELSE <<Head(str)>> \o Substring(Tail(str), end - Head(str).count)

\* a + b
Concat(a, b) ==
    IF a = <<>> THEN b
    ELSE IF b = <<>> THEN a
    ELSE IF a[Len(a)].ch = b[1].ch
         THEN SubSeq(a, 1, Len(a) - 1)
                  \o <<Run(b[1].ch, a[Len(a)].count + b[1].count)>> \o Tail(b)
    ELSE a \o b

\* "...[truncated]"
TruncationMarker ==
    <<".", ".", ".", "[", "t", "r", "u", "n", "c", "a", "t", "e", "d", "]">>
MarkerRuns ==
    <<Run(".", 3)>> \o [i \in 1..(Len(TruncationMarker) - 3) |-> Run(TruncationMarker[i + 3], 1)]

\* a truncation that also marks an input of exactly the limit
TruncatedFromLimit(str) ==
    IF Length(str) >= MaxInputLength
    THEN Concat(Substring(str, MaxInputLength), MarkerRuns)
    ELSE str

\* input.length > 25000 ? input.substring(0, 25000) + "...[truncated]" : input
TruncatedInput(str) ==
    IF Length(str) > MaxInputLength
    THEN Concat(Substring(str, MaxInputLength), MarkerRuns)
    ELSE str

\* the inputs: up to MaxRuns runs of these lengths, of alternating characters
RunLengths == {1, 5000, 12500, 24999, 25000}
InputChars == {"a", "."}
Inputs ==
    UNION {{[i \in 1..n |-> Run(IF i % 2 = 1 THEN first
                                ELSE CHOOSE c \in InputChars : c # first,
                                counts[i])] :
               first \in InputChars, counts \in [1..n -> RunLengths]} : n \in 0..MaxRuns}

TruncationIdle ==
    /\ tpc = "idle"
    /\ input = <<>>
    /\ truncatedInput = <<>>

TruncationInit ==
    /\ tpc = "called"
    /\ input \in Inputs
    /\ truncatedInput = <<>>

\* the first statement of analyzeProjectInput
BuildRequestText ==
    /\ tpc = "called"
    /\ truncatedInput' = TruncatedInput(input)
    /\ tpc' = "built"
    /\ UNCHANGED <<input, notTruncation>>

----------------------------------------------------------------------------
(* App.handleDeleteProject, with projectService.saveProject and            *)
(* deleteProject as they run: on localStorage within the call, on the      *)
(* remote table as a request that the server executes later.  Requests in  *)
(* flight are executed in any order.                                       *)

DeleteIdle ==
    /\ supabase = FALSE
    /\ requests = {}
    /\ persisted = [id \in ProjectIds |-> 0]
    /\ deleted = {}

DeleteInit ==
    /\ supabase \in BOOLEAN
    /\ requests = {}
    /\ persisted = [id \in ProjectIds |-> 0]
    /\ deleted = {}

Request(op, id, version) == [op |-> op, id |-> id, version |-> version]

\* upsert({id, state, updated_at}, {onConflict: 'id'}), or the fallback's
\* replace-or-prepend
Upserted(table, id, version) ==
    [p \in DOMAIN table \cup {id} |-> IF p = id THEN version ELSE table[p]]

\* .delete().eq('id', projectId), or the fallback's filter
Removed(table, id) == [p \in DOMAIN table \ {id} |-> table[p]]

\* onOpen(project.id), from a card of the dashboard
OpenListedProject(id) ==
    /\ id \in DOMAIN projects
    /\ HandleOpenProject(id)

\* the timer's callback: await projectService.saveProject(activeProject)
SaveTimerSends ==
    \E t \in timers :
        /\ timers' = timers \ {t}
        /\ IF supabase
           THEN /\ requests' = requests \cup {Request("upsert", t.id, t.version)}
                /\ UNCHANGED persisted
           ELSE /\ persisted' = Upserted(persisted, t.id, t.version)
                /\ UNCHANGED requests
        /\ UNCHANGED <<projects, currentProjectId, saveTimeoutRef, timerCount, store, writes,
                       storeFailed, supabase, deleted, notProjects>>

\* handleDeleteProject(id), from the dashboard's confirmation dialog
HandleDeleteProject(id) ==
    /\ currentProjectId = NoProject
    /\ id \in DOMAIN projects
    /\ projects' = Removed(projects, id)
    /\ IF currentProjectId = id
       THEN currentProjectId' = NoProject /\ DisarmSave
       ELSE UNCHANGED <<currentProjectId, timers, saveTimeoutRef, timerCount>>
    /\ IF supabase
       THEN /\ requests' = requests \cup {Request("delete", id, 0)}
            /\ UNCHANGED <<persisted, deleted>>
       ELSE /\ persisted' = Removed(persisted, id)
            /\ deleted' = deleted \cup {id}
            /\ UNCHANGED requests
    /\ UNCHANGED <<store, writes, storeFailed, supabase, notProjects>>

\* the server executes a request; an error is only logged by the caller
RequestExecuted(ok) ==
    \E r \in requests :
        /\ requests' = requests \ {r}
        /\ IF ~ok THEN UNCHANGED <<persisted, deleted>>
           ELSE IF r.op = "upsert"
           THEN persisted' = Upserted(persisted, r.id, r.version) /\ UNCHANGED deleted
           ELSE persisted' = Removed(persisted, r.id) /\ deleted' = deleted \cup {r.id}
        /\ UNCHANGED <<persistVars, supabase, notProjects>>

----------------------------------------------------------------------------
(* ScreenshotStudio.runAnalysis: the AI copy of one asset.  Only the       *)
(* analysis button is disabled while isAnalyzing; the other controls stay  *)
(* live.                                                                   *)

\* what generateSmallTileCopy or analyzeScreenshot resolves with
CopyResults ==
    {[headline |-> <<"Track time">>, subheadline |-> <<"Without effort">>,
      highlightText |-> <<"time">>],
     [headline |-> <<"Focus">>, subheadline |-> <<>>, highlightText |-> <<>>]}

\* { ...shot, headline: 'Analyzing...', subheadline: 'AI is reading screenshot...',
\*   highlightText: '' }
LoadingState(asset) ==
    [asset EXCEPT !.headline = <<"Analyzing...">>,
                  !.subheadline = <<"AI is reading screenshot...">>,
                  !.highlightText = <<>>]

\* { ...shot, headline: result.headline, subheadline: result.subheadline,
\*   highlightText: result.highlightText }
UpdatedShot(asset, copy) ==
    [asset EXCEPT !.headline = copy.headline,
                  !.subheadline = copy.subheadline,
                  !.highlightText = copy.highlightText]

\* updateCollection as the closure of runAnalysis sees it: the setter of the
\* tab it was called on, with the updater prev.map(s => s.id === shot.id ? to : s)
UpdateShotCollection(tab, to) ==
    /\ screenshots' = IF tab = "SCREENSHOTS" THEN MapUpdated(screenshots, to) ELSE screenshots
    /\ smallTiles' = IF tab = "SMALL_TILE" THEN MapUpdated(smallTiles, to) ELSE smallTiles
    /\ marquees' = IF tab \notin {"SCREENSHOTS", "SMALL_TILE"} THEN MapUpdated(marquees, to)
                   ELSE marquees

\* the effect that syncs back to the App: what it hands to onStatusChange
\* after a render, from where the project is saved
StatusReported ==
    [screenshots |-> screenshots, smallTiles |-> smallTiles, marquees |-> marquees]

CopyIdle ==
    /\ studioAnalyzing = FALSE
    /\ shot = Asset("null", "DEVICE")
    /\ shotTab = "SCREENSHOTS"
    /\ analysisOutcome = "none"

\* the analysis button: runAnalysis(activeScreenshot), up to its await (the
\* first analysis of the session)
RunAnalysisStart ==
    /\ HasActive
    /\ ~studioAnalyzing
    /\ analysisOutcome = "none"
    /\ studioAnalyzing' = TRUE
    /\ shot' = activeScreenshot
    /\ shotTab' = activeTab
    /\ UpdateShotCollection(activeTab, LoadingState(activeScreenshot))
    /\ analysisOutcome' = "pending"
    /\ UNCHANGED <<activeTab, activeScreenshotId, edits, lastEdit, notStudio>>

\* the awaited call resolves: the second updateCollection, then finally
RunAnalysisResolves(copy) ==
    /\ studioAnalyzing
    /\ UpdateShotCollection(shotTab, UpdatedShot(shot, copy))
    /\ studioAnalyzing' = FALSE
    /\ analysisOutcome' = "resolved"
    /\ UNCHANGED <<shot, shotTab, activeTab, activeScreenshotId, edits, lastEdit, notStudio>>

\* the awaited call rejects: catch (e) { console.error(...) }, then finally
RunAnalysisRejects ==
    /\ studioAnalyzing
    /\ studioAnalyzing' = FALSE
    /\ analysisOutcome' = "rejected"
    /\ UNCHANGED <<shot, shotTab, layoutVars, notStudio>>

----------------------------------------------------------------------------
(* BrandView.handleSelectVariant as it runs: the click selects the variant *)
(* and starts generateIconSizes, which stores its icons when its image has *)
(* loaded.  Images in flight load in any order.                            *)

NotHandedOver == [done |-> FALSE, quiet |-> FALSE, main |-> <<>>, resized |-> <<>>]

ResizeIdle ==
    /\ resizes = {}
    /\ resizeCount = 0
    /\ handedOver = NotHandedOver

\* the brand view after a generation: the four variants shown, the first
\* selected and resized (or not, if its image did not load)
VariantsShown ==
    /\ gpc = "idle"
    /\ branches = [i \in Branches |-> "ok"]
    /\ iconVariants = [i \in Branches |-> VariantOf(i)]
    /\ selectedIconIndex = 0
    /\ resizedIcons \in {ResizedFrom(VariantOf(1), loaded) : loaded \in BOOLEAN}
    /\ isGeneratingAssets = FALSE
    /\ assetError = NoAssetError

\* handleSelectVariant(index) up to the await inside generateIconSizes
SelectVariantStarts(index) ==
    /\ gpc = "idle"
    /\ index < Len(iconVariants)
    /\ resizeCount < MaxSelections
    /\ selectedIconIndex' = index
    /\ resizeCount' = resizeCount + 1
    /\ resizes' = resizes \cup {[no |-> resizeCount + 1, originalUrl |-> iconVariants[index + 1]]}
    /\ UNCHANGED <<gpc, branches, iconVariants, resizedIcons, isGeneratingAssets, assetError,
                   handedOver, notVariants>>

\* img.onload or img.onerror of one call, then setResizedIcons(newAssets)
ResizeSettles(loaded) ==
    \E call \in resizes :
        /\ resizes' = resizes \ {call}
        /\ resizedIcons' = ResizedFrom(call.originalUrl, loaded)
        /\ UNCHANGED <<gpc, branches, iconVariants, selectedIconIndex, isGeneratingAssets,
                       assetError, resizeCount, handedOver, notVariants>>

\* handleComplete: the main icon from iconVariants[selectedIconIndex], rounded
\* or as it is, and the resizedIcons of the render the button was pressed in
HandleComplete ==
    /\ gpc = "idle"
    /\ selectedIconIndex # NoIndex
    /\ handedOver' = [done |-> TRUE, quiet |-> resizes = {},
                      main |-> iconVariants[selectedIconIndex + 1],
                      resized |-> resizedIcons]
    /\ gpc' = "completed"
    /\ UNCHANGED <<branches, iconVariants, selectedIconIndex, resizedIcons,
                   isGeneratingAssets, assetError, resizes, resizeCount, notVariants>>

----------------------------------------------------------------------------
(* Specifications *)

\* one call of parseJSON on a text of the model
InitParse == ParseInit /\ RetryIdle /\ AnalyzeIdle /\ ViewIdle /\ LayoutInit /\ BatchIdle /\ PersistIdle /\ BrandIdle /\ IdentityIdle /\ ImageIdle /\ RenderIdle /\ ZipIdle /\ StoreIdle /\ FreeTextIdle /\ ShortDescriptionIdle /\ TruncationIdle /\ DeleteIdle /\ CopyIdle /\ ResizeIdle
SpecParse == InitParse /\ [][ParseNext]_vars

\* one call of retry with the default parameters
RetryNext ==
    \/ \E o \in Outcomes : RetryInvoke(o)
    \/ RetryTimerFires
InitRetry == ParseIdle /\ RetryCalled /\ AnalyzeIdle /\ ViewIdle /\ LayoutInit /\ BatchIdle /\ PersistIdle /\ BrandIdle /\ IdentityIdle /\ ImageIdle /\ RenderIdle /\ ZipIdle /\ StoreIdle /\ FreeTextIdle /\ ShortDescriptionIdle /\ TruncationIdle /\ DeleteIdle /\ CopyIdle /\ ResizeIdle
SpecRetry == InitRetry /\ [][RetryNext]_vars

\* the analysis view: handleAnalyze, analyzeProjectInput and its calls of retry
AnalyzeNext ==
    \/ \E n \in DescriptionLengths : SetDescription(n)
    \/ HandleAnalyzeTooShort
    \/ HandleAnalyzeStart
    \/ AnalyzeIssueRequest
    \/ \E o \in Outcomes : RetryInvoke(o)
    \/ RetryTimerFires
    \/ AnalyzeOnResponse
    \/ AnalyzeOnError
    \/ AnalyzeFinish
    \/ HandleAnalyzeReturned
    \/ HandleAnalyzeThrown
InitAnalyze == ParseIdle /\ RetryIdle /\ AnalyzeIdle /\ ViewInit /\ LayoutInit /\ BatchIdle /\ PersistIdle /\ BrandIdle /\ IdentityIdle /\ ImageIdle /\ RenderIdle /\ ZipIdle /\ StoreIdle /\ FreeTextIdle /\ ShortDescriptionIdle /\ TruncationIdle /\ DeleteIdle /\ CopyIdle /\ ResizeIdle
SpecAnalyze == InitAnalyze /\ [][AnalyzeNext]_vars

\* one call of analyzeProjectInput.  Every promise it awaits settles: the
\* remote call resolves or rejects and the timer of retry fires.
AnalyzeCallNext ==
    \/ AnalyzeIssueRequest
    \/ \E o \in CallOutcomes : RetryInvoke(o)
    \/ RetryTimerFires
    \/ AnalyzeOnResponse
    \/ AnalyzeOnError
    \/ AnalyzeFinish
InitAnalyzeCall == ParseIdle /\ RetryIdle /\ AnalyzeCalled /\ ViewIdle /\ LayoutInit /\ BatchIdle /\ PersistIdle /\ BrandIdle /\ IdentityIdle /\ ImageIdle /\ RenderIdle /\ ZipIdle /\ StoreIdle /\ FreeTextIdle /\ ShortDescriptionIdle /\ TruncationIdle /\ DeleteIdle /\ CopyIdle /\ ResizeIdle
SpecAnalyzeCall == InitAnalyzeCall /\ [][AnalyzeCallNext]_vars /\ WF_vars(AnalyzeCallNext)

\* the studio: tabs, selection, position patches and template switches
LayoutNext ==
    \/ \E posUpdates \in PosUpdates : PatchPosition(posUpdates)
    \/ \E field \in ResetFields : ResetPositionField(field)
    \/ \E field \in FlagFields : TogglePositionFlag(field)
    \/ \E t \in OfferedTemplates : SwitchTemplate(t)
    \/ \E n \in 1..3 : SelectAsset(n)
    \/ \E tab \in Tabs : SwitchTab(tab)
InitLayout == ParseIdle /\ RetryIdle /\ AnalyzeIdle /\ ViewIdle /\ LayoutInit /\ BatchIdle /\ PersistIdle /\ BrandIdle /\ IdentityIdle /\ ImageIdle /\ RenderIdle /\ ZipIdle /\ StoreIdle /\ FreeTextIdle /\ ShortDescriptionIdle /\ TruncationIdle /\ DeleteIdle /\ CopyIdle /\ ResizeIdle
SpecLayout == InitLayout /\ [][LayoutNext]_vars

\* one batch export of the studio
BatchNext ==
    \/ BatchStart
    \/ BatchOpenList
    \/ BatchSelectItem
    \/ \E hasCanvas \in BOOLEAN : BatchCapture(hasCanvas)
    \/ \E ok \in BOOLEAN : BatchCaptureSettles(ok)
    \/ BatchCloseList
    \/ BatchFinish
InitBatch == ParseIdle /\ RetryIdle /\ AnalyzeIdle /\ ViewIdle /\ BatchInit /\ PersistIdle /\ BrandIdle /\ IdentityIdle /\ ImageIdle /\ RenderIdle /\ ZipIdle /\ StoreIdle /\ FreeTextIdle /\ ShortDescriptionIdle /\ TruncationIdle /\ DeleteIdle /\ CopyIdle /\ ResizeIdle
SpecBatch == InitBatch /\ [][BatchNext]_vars
\* every timer fires and every toJpeg call settles
SpecBatchFair == SpecBatch /\ WF_vars(BatchNext)

\* the App: updates of the active project, navigation and the save timers
PersistNext ==
    \/ UpdateActiveProject
    \/ \E id \in ProjectIds : HandleOpenProject(id)
    \/ HandleNavigateDashboard
    \/ \E ok \in BOOLEAN : SaveTimerFires(ok)
InitPersist == ParseIdle /\ RetryIdle /\ AnalyzeIdle /\ ViewIdle /\ LayoutInit /\ BatchIdle /\ PersistIdle /\ BrandIdle /\ IdentityIdle /\ ImageIdle /\ RenderIdle /\ ZipIdle /\ StoreIdle /\ FreeTextIdle /\ ShortDescriptionIdle /\ TruncationIdle /\ DeleteIdle /\ CopyIdle /\ ResizeIdle
SpecPersist == InitPersist /\ [][PersistNext]_vars
\* a timer that is set and not cleared fires
SpecPersistFair ==
    SpecPersist /\ WF_vars(\E ok \in BOOLEAN : SaveTimerFires(ok))

\* the brand view: logo variants
BrandNext ==
    \/ GenerationWithoutPrompt
    \/ GenerationStart
    \/ \E i \in Branches, ok \in BOOLEAN : BranchSettles(i, ok)
    \/ \E message \in GenerationErrors : GenerationRejected(message)
    \/ GenerationFulfilled
    \/ \E loaded \in BOOLEAN : GenerationResized(loaded)
    \/ \E index \in 0..3, loaded \in BOOLEAN : HandleSelectVariant(index, loaded)
InitBrand == ParseIdle /\ RetryIdle /\ AnalyzeIdle /\ ViewIdle /\ LayoutInit /\ BatchIdle /\ PersistIdle /\ BrandIdle /\ IdentityIdle /\ ImageIdle /\ RenderIdle /\ ZipIdle /\ StoreIdle /\ FreeTextIdle /\ ShortDescriptionIdle /\ TruncationIdle /\ DeleteIdle /\ CopyIdle /\ ResizeIdle
SpecBrand == InitBrand /\ [][BrandNext]_vars

\* one call of generateBrandIdentity, from the parsed response on
IdentityNext ==
    \/ IdentityReturn
InitIdentity == ParseIdle /\ RetryIdle /\ AnalyzeIdle /\ ViewIdle /\ LayoutInit /\ BatchIdle /\ PersistIdle /\ BrandIdle /\ IdentityInit /\ ImageIdle /\ RenderIdle /\ ZipIdle /\ StoreIdle /\ FreeTextIdle /\ ShortDescriptionIdle /\ TruncationIdle /\ DeleteIdle /\ CopyIdle /\ ResizeIdle
SpecIdentity == InitIdentity /\ [][IdentityNext]_vars

\* one call of generateImageFromPrompt and its call of retry
ImageNext ==
    \/ \E o \in ImageOutcomes : RetryInvoke(o)
    \/ RetryTimerFires
    \/ ImageOnResponse
    \/ ImageOnError
InitImage == ParseIdle /\ RetryCalled /\ AnalyzeIdle /\ ViewIdle /\ LayoutInit /\ BatchIdle /\ PersistIdle /\ BrandIdle /\ IdentityIdle /\ ImageCalled /\ RenderIdle /\ ZipIdle /\ StoreIdle /\ FreeTextIdle /\ ShortDescriptionIdle /\ TruncationIdle /\ DeleteIdle /\ CopyIdle /\ ResizeIdle
SpecImage == InitImage /\ [][ImageNext]_vars

\* one call of renderTextContent
RenderNext ==
    \/ RenderPlain
    \/ RenderHighlighted
    \/ RenderThrows
InitRender == ParseIdle /\ RetryIdle /\ AnalyzeIdle /\ ViewIdle /\ LayoutInit /\ BatchIdle /\ PersistIdle /\ BrandIdle /\ IdentityIdle /\ ImageIdle /\ RenderInit /\ ZipIdle /\ StoreIdle /\ FreeTextIdle /\ ShortDescriptionIdle /\ TruncationIdle /\ DeleteIdle /\ CopyIdle /\ ResizeIdle
SpecRender == InitRender /\ [][RenderNext]_vars

\* the finalize view: downloads of the package
ZipNext ==
    \/ \E subset \in Subsets : HandleDownloadPackage(subset)
    \/ \E ok \in BOOLEAN : ZipGenerated(ok)
InitZip == ParseIdle /\ RetryIdle /\ AnalyzeIdle /\ ViewIdle /\ LayoutInit /\ BatchIdle /\ PersistIdle /\ BrandIdle /\ IdentityIdle /\ ImageIdle /\ RenderIdle /\ ZipInit /\ StoreIdle /\ FreeTextIdle /\ ShortDescriptionIdle /\ TruncationIdle /\ DeleteIdle /\ CopyIdle /\ ResizeIdle
SpecZip == InitZip /\ [][ZipNext]_vars

\* the two stores of projectService under one sequence of operations
StoreNext ==
    \/ \E id \in StoredIdsOf : SaveProject(id)
    \/ \E id \in StoredIdsOf : DeleteProject(id)
InitStore == ParseIdle /\ RetryIdle /\ AnalyzeIdle /\ ViewIdle /\ LayoutInit /\ BatchIdle /\ PersistIdle /\ BrandIdle /\ IdentityIdle /\ ImageIdle /\ RenderIdle /\ ZipIdle /\ StoreIdle /\ FreeTextIdle /\ ShortDescriptionIdle /\ TruncationIdle /\ DeleteIdle /\ CopyIdle /\ ResizeIdle
SpecStore == InitStore /\ [][StoreNext]_vars

\* one call of a free-text generator, from the response on
FreeTextNext ==
    \/ FreeTextReturn
InitFreeText == ParseIdle /\ RetryIdle /\ AnalyzeIdle /\ ViewIdle /\ LayoutInit /\ BatchIdle /\ PersistIdle /\ BrandIdle /\ IdentityIdle /\ ImageIdle /\ RenderIdle /\ ZipIdle /\ StoreIdle /\ FreeTextInit /\ ShortDescriptionIdle /\ TruncationIdle /\ DeleteIdle /\ CopyIdle /\ ResizeIdle
SpecFreeText == InitFreeText /\ [][FreeTextNext]_vars

\* the short-description step
ShortDescriptionNext ==
    \/ \E scored \in ResultLists : DescriptionsArrive(scored)
    \/ DescriptionsFail
    \/ HandleRegenerate
    \/ \E idx \in 1..MaxCandidates : SelectCard(idx)
    \/ DeployShortDescription
InitShortDescription == ParseIdle /\ RetryIdle /\ AnalyzeIdle /\ ViewIdle /\ LayoutInit /\ BatchIdle /\ PersistIdle /\ BrandIdle /\ IdentityIdle /\ ImageIdle /\ RenderIdle /\ ZipIdle /\ StoreIdle /\ FreeTextIdle /\ ShortDescriptionInit /\ TruncationIdle /\ DeleteIdle /\ CopyIdle /\ ResizeIdle
SpecShortDescription == InitShortDescription /\ [][ShortDescriptionNext]_vars

\* the input text of one analysis request
TruncationNext == BuildRequestText
InitTruncation == ParseIdle /\ RetryIdle /\ AnalyzeIdle /\ ViewIdle /\ LayoutInit /\ BatchIdle /\ PersistIdle /\ BrandIdle /\ IdentityIdle /\ ImageIdle /\ RenderIdle /\ ZipIdle /\ StoreIdle /\ FreeTextIdle /\ ShortDescriptionIdle /\ TruncationInit /\ DeleteIdle /\ CopyIdle /\ ResizeIdle
SpecTruncation == InitTruncation /\ [][TruncationNext]_vars

\* the App's projects with deletion and the remote requests in flight
DeleteNext ==
    \/ UpdateActiveProject
    \/ \E id \in ProjectIds : OpenListedProject(id)
    \/ HandleNavigateDashboard
    \/ SaveTimerSends
    \/ \E id \in ProjectIds : HandleDeleteProject(id)
    \/ \E ok \in BOOLEAN : RequestExecuted(ok)
InitDelete == ParseIdle /\ RetryIdle /\ AnalyzeIdle /\ ViewIdle /\ LayoutInit /\ BatchIdle /\ PersistIdle /\ BrandIdle /\ IdentityIdle /\ ImageIdle /\ RenderIdle /\ ZipIdle /\ StoreIdle /\ FreeTextIdle /\ ShortDescriptionIdle /\ TruncationIdle /\ DeleteInit /\ CopyIdle /\ ResizeIdle
SpecDelete == InitDelete /\ [][DeleteNext]_vars

\* the studio with an AI copy analysis and the edits made around it
CopyNext ==
    \/ \E posUpdates \in PosUpdates : PatchPosition(posUpdates)
    \/ \E t \in OfferedTemplates : SwitchTemplate(t)
    \/ \E tab \in Tabs : SwitchTab(tab)
    \/ RunAnalysisStart
    \/ \E copy \in CopyResults : RunAnalysisResolves(copy)
    \/ RunAnalysisRejects
InitCopy == ParseIdle /\ RetryIdle /\ AnalyzeIdle /\ ViewIdle /\ LayoutInit /\ BatchIdle /\ PersistIdle /\ BrandIdle /\ IdentityIdle /\ ImageIdle /\ RenderIdle /\ ZipIdle /\ StoreIdle /\ FreeTextIdle /\ ShortDescriptionIdle /\ TruncationIdle /\ DeleteIdle /\ CopyIdle /\ ResizeIdle
SpecCopy == InitCopy /\ [][CopyNext]_vars

\* the variants of the brand view, selected in succession
VariantsNext ==
    \/ \E index \in 0..3 : SelectVariantStarts(index)
    \/ \E loaded \in BOOLEAN : ResizeSettles(loaded)
    \/ HandleComplete
InitVariants == ParseIdle /\ RetryIdle /\ AnalyzeIdle /\ ViewIdle /\ LayoutInit /\ BatchIdle /\ PersistIdle /\ VariantsShown /\ IdentityIdle /\ ImageIdle /\ RenderIdle /\ ZipIdle /\ StoreIdle /\ FreeTextIdle /\ ShortDescriptionIdle /\ TruncationIdle /\ DeleteIdle /\ CopyIdle /\ ResizeIdle
SpecVariants == InitVariants /\ [][VariantsNext]_vars

----------------------------------------------------------------------------
(* Claims about parseJSON *)

ParseDone == ppc \in {"returned", "thrown"}

\* the containers of s still open at its end, innermost last (string-aware)
RECURSIVE OpenStack(_, _, _, _)
OpenStack(s, i, inString, stack) ==
    IF i > Len(s) THEN stack
    ELSE IF inString THEN OpenStack(s, i + 1, s[i] # QUOTE, stack)
    ELSE IF s[i] = QUOTE THEN OpenStack(s, i + 1, TRUE, stack)
    ELSE IF s[i] \in {"{", "["} THEN OpenStack(s, i + 1, FALSE, Append(stack, s[i]))
    ELSE IF s[i] \in {"}", "]"} /\ stack # <<>>
         THEN OpenStack(s, i + 1, FALSE, SubSeq(stack, 1, Len(stack) - 1))
    ELSE OpenStack(s, i + 1, FALSE, stack)

RECURSIVE Closers(_)
Closers(stack) ==
    IF stack = <<>> THEN <<>>
    ELSE <<IF stack[Len(stack)] = "{" THEN "}" ELSE "]">>
         \o Closers(SubSeq(stack, 1, Len(stack) - 1))

\* s followed by the closing braces/brackets it lacks, innermost first
Complete(s) == s \o Closers(OpenStack(s, 1, FALSE, <<>>))

\* s is valid JSON except that its last 1..MaxMissing closers are missing
MissesClosers(s) ==
    /\ s # Undefined
    /\ Len(Complete(s)) - Len(s) \in 1..MaxMissing
    /\ JSONParse(Complete(s)).ok

\* the innermost value of a chain of one-element containers
RECURSIVE LeafOf(_)
LeafOf(v) == IF v.kids = <<>> THEN v ELSE LeafOf(v.kids[Len(v.kids)])

\* b is '#' followed only by hex characters, more than six of them
IsGlitchColor(b) ==
    /\ Len(b) > 7
    /\ b[1] = "#"
    /\ HexRun(b, 2) = Len(b) - 1

\* C1: for every text that is already valid JSON, parseJSON returns the value
\* a direct JSON.parse of that text returns.
C1_ValidJsonUnchanged ==
    (ParseDone /\ text # Undefined /\ JSONParse(text).ok)
        => (ppc = "returned" /\ parsed = JSONParse(text).v)

\* C2: for valid JSON whose last 1, 2 or 3 closing braces/brackets are missing,
\* parseJSON returns what the complete text parses to.
C2_MissingClosersRecovered ==
    (ParseDone /\ MissesClosers(text))
        => (ppc = "returned" /\ parsed = JSONParse(Complete(text)).v)

\* C3: a color token followed by further hex characters (a run of any length
\* above six) comes out of parseJSON as '#' and exactly its first six hex digits.
C3_HexRunCollapsed ==
    (ParseDone /\ text # Undefined /\ JSONParse(text).ok
        /\ LeafOf(JSONParse(text).v).t = "str"
        /\ IsGlitchColor(LeafOf(JSONParse(text).v).s))
        => (ppc = "returned"
            /\ LeafOf(parsed).s = SubSeq(LeafOf(JSONParse(text).v).s, 1, 7))


----------------------------------------------------------------------------
(* Claims about retry *)

RateLimited(o) == ~o.ok /\ o.err \in RateLimitErrors
RetrySettled == rpc \in {"returned", "thrown"}

\* the first n invocations of fn were rejected with rate-limit errors
FirstRateLimited(n) == Len(outcomes) >= n /\ \A k \in 1..n : RateLimited(outcomes[k])

\* C4: when fn is rejected with a rate-limit error on its first two invocations
\* and resolves on the third, retry keeps going after each rejection, invokes
\* fn exactly three times, resolves with the third invocation's value as it is,
\* and waits 2000 ms and then 4000 ms (the second wait at least twice the first).
C4_TwoRateLimitsThenSuccess ==
    /\ (Len(outcomes) \in 1..2 /\ FirstRateLimited(Len(outcomes)))
           => (rpc \in {"waiting", "call"} /\ calls = Len(outcomes))
    /\ (FirstRateLimited(2) /\ Len(outcomes) >= 3 /\ outcomes[3].ok)
           => /\ rpc = "returned"
              /\ calls = 3
              /\ Len(outcomes) = 3
              /\ settled = outcomes[3]
              /\ waits = <<2000, 4000>>
              /\ waits[2] >= 2 * waits[1]

C4_Witness ==
    /\ rpc = "returned"
    /\ FirstRateLimited(2)
    /\ Len(outcomes) = 3
    /\ outcomes[3].ok
    /\ outcomes[3].resp.text = "json"

\* C5: when the first invocation of fn is rejected with an error that is no
\* rate-limit condition, retry has invoked fn exactly once, has waited for
\* nothing, and rejects with that very error.
C5_OtherErrorPropagatesAtOnce ==
    (Len(outcomes) >= 1 /\ ~outcomes[1].ok /\ outcomes[1].err \in OtherErrors)
        => /\ rpc = "thrown"
           /\ calls = 1
           /\ Len(outcomes) = 1
           /\ waits = <<>>
           /\ settled = outcomes[1]

C5_Witness ==
    /\ rpc = "thrown"
    /\ calls = 1
    /\ ~outcomes[1].ok
    /\ outcomes[1].err \in OtherErrors

\* C6: when every invocation of fn is rejected with a rate-limit error, retry
\* never invokes fn more than four times (the first attempt and three retries),
\* and once it has settled it has invoked fn exactly four times and rejects
\* with the error of the fourth invocation.
C6_BudgetExhausted ==
    (Len(outcomes) >= 1 /\ FirstRateLimited(Len(outcomes)))
        => /\ calls <= 4
           /\ calls = Len(outcomes)
           /\ RetrySettled
                 => /\ rpc = "thrown"
                    /\ calls = 4
                    /\ settled = outcomes[4]
                    /\ Len(waits) = 3

C6_Witness ==
    /\ rpc = "thrown"
    /\ calls = 4
    /\ FirstRateLimited(4)

----------------------------------------------------------------------------
(* Claims about analyzeProjectInput and handleAnalyze *)

AnalyzeSettled == apc \in {"returned", "thrown"}

\* every attempt so far ended with a response that did not pass validateAnalysis
AllInvalid == attemptLog # <<>> /\ \A k \in 1..Len(attemptLog) : attemptLog[k] = "invalid"

\* C7: when every response fails validation, analyzeProjectInput issues its
\* requests through retry one per attempt, never more than three, the first
\* without the hint and each later one with it; it settles only after the
\* third, and then by throwing "Unable to obtain analysis data." with no result.
C7_AllInvalidFailsAfterThree ==
    AllInvalid
        => /\ Len(hints) <= 3
           /\ \A k \in 1..Len(hints) : hints[k] = (k > 1)
           /\ apc # "break"
           /\ apc # "returned"
           /\ aresult = NoResult
           /\ (AnalyzeSettled \/ apc = "idle")
                 => /\ Len(attemptLog) = 3
                    /\ hints = <<FALSE, TRUE, TRUE>>
                    /\ aerror = UnableMessage

C7_Witness ==
    /\ AllInvalid
    /\ apc = "thrown"
    /\ hints = <<FALSE, TRUE, TRUE>>

\* a populated AnalysisResult
Populated(r) == r # NoResult

\* C8: the junk rejection is raised exactly when a response flagged the input
\* with isJunk = true. Once flagged, no further request is issued and the flow
\* ends in "Junk input detected.", never in a result or in the generic error;
\* the view shows the junk guidance exactly for a flagged input, so no network,
\* rate-limit or malformed-response failure is shown as the junk rejection.
C8_JunkRejectionIffFlagged ==
    /\ [](junkFlagged => (apc \in {"break", "thrown", "idle"} /\ rpc = "idle"))
    /\ [](AnalyzeSettled => ((apc = "thrown" /\ aerror = JunkMessage) <=> junkFlagged))
    /\ [](junkFlagged => (~Populated(aresult) /\ ~Populated(completed)))
    /\ [][HandleAnalyzeThrown => ((error' = JunkGuidance) <=> junkFlagged)]_vars

C8_Witness ==
    /\ junkFlagged
    /\ apc = "idle"
    /\ error = JunkGuidance
    /\ ~Populated(completed)

NonEmptyString(v) == v.kind = "string" /\ v.items # <<>>
NonEmptyList(v) == v.kind = "array" /\ v.items # <<>>

\* C9: every AnalysisResult analyzeProjectInput returns has category,
\* targetAudience, tone, seoStrategy, marketAnalysis and customerPsychology
\* non-empty strings and coreFeatures and primaryKeywords non-empty lists.
C9_ResultFieldsNonEmpty ==
    apc = "returned"
        => /\ \A f \in {"category", "targetAudience", "tone", "seoStrategy",
                        "marketAnalysis", "customerPsychology"} : NonEmptyString(aresult[f])
           /\ \A f \in {"coreFeatures", "primaryKeywords"} : NonEmptyList(aresult[f])

----------------------------------------------------------------------------
(* Claims about the studio's positions *)

AllAssets == screenshots \o smallTiles \o marquees

\* between two values of a collection, every asset keeps the positions of the
\* templates that are not its active one, and all of them if its template changed
OthersKept(before, after) ==
    /\ Len(after) = Len(before)
    /\ \A n \in 1..Len(before) :
          \/ after[n] = before[n]
          \/ /\ after[n].id = before[n].id
             /\ \A t \in Templates \ {before[n].template} : \A f \in Fields :
                   after[n].positions[t][f] = before[n].positions[t][f]
             /\ after[n].template # before[n].template
                   => after[n].positions = before[n].positions

\* C10: in every step of the studio and for every asset, the ImagePosition of
\* each template other than the asset's active one keeps every field, and a
\* step that changes the asset's template changes none of its ImagePositions.
C10_OtherTemplatesKeepPositions ==
    [][/\ OthersKept(screenshots, screenshots')
       /\ OthersKept(smallTiles, smallTiles')
       /\ OthersKept(marquees, marquees')]_vars

\* an asset patched under DEVICE and then switched to another template
C10_Witness ==
    \E n \in 1..Len(AllAssets) :
        /\ AllAssets[n].template # "DEVICE"
        /\ AllAssets[n].positions["DEVICE"] # DEFAULT_POSITIONS["DEVICE"]
        /\ edits = 2


\* the ImagePosition the controls of the active asset show and edit
ActivePosition == activeScreenshot.positions[currentTemp]

\* C11: the reset button of field f sets f, in the ImagePosition of the template
\* in effect for the active asset, to that template's default for f and keeps
\* every other field of that position; so it is on every tab, the small-tile
\* tab (template in effect CENTERED) included.
C11_ResetRestoresOneField ==
    [][\A field \in ResetFields :
          ResetPositionField(field)
              => /\ ActivePosition'[field] = DEFAULT_POSITIONS[currentTemp][field]
                 /\ \A f \in Fields \ {field} : ActivePosition'[f] = ActivePosition[f]
                 /\ currentTemp' = currentTemp]_vars

\* the x of a small tile was reset while its logo flag stays switched off
C11_Witness ==
    /\ lastEdit = [op |-> "reset", tab |-> "SMALL_TILE", field |-> "x"]
    /\ activeTab = "SMALL_TILE"
    /\ ActivePosition["x"] = DEFAULT_POSITIONS["CENTERED"]["x"]
    /\ ActivePosition["showLogo"] = FALSE


----------------------------------------------------------------------------
(* Claims about the batch export *)

\* how many assets the lists before list k hold
RECURSIVE Before(_)
Before(k) == IF k = 1 THEN 0 ELSE Before(k - 1) + Len(lists[k - 1])

\* the entry of captureLog for item n of list k
EntryOf(k, n) == captureLog[Before(k) + n]

BatchDone == bpc = "done"

\* the export is over and every asset was processed; one whose capture did not
\* succeed is in the result as it was in the list, one that was rendered has
\* the new output; the collections are the results and completion was signalled
ProcessedAll ==
    /\ Len(captureLog) = Before(4)
    /\ \A k \in 1..3 :
          /\ Len(results[k]) = Len(lists[k])
          /\ \A n \in 1..Len(lists[k]) :
                IF EntryOf(k, n).end = "rendered"
                THEN /\ results[k][n].renderedUrl # lists[k][n].renderedUrl
                     /\ [results[k][n] EXCEPT !.renderedUrl = <<>>]
                           = [lists[k][n] EXCEPT !.renderedUrl = <<>>]
                ELSE results[k][n] = lists[k][n]
    /\ <<screenshots, smallTiles, marquees>> = results
    /\ batchSignals = <<"onStatusChange", "onComplete">>
    /\ ~isBatchProcessing

\* C12: a capture that fails leaves its asset in the result as it was; the
\* export still processes every other asset of the three collections, always
\* comes to its end, and signals completion exactly once, at the end.
C12_FailedRenderDoesNotAbort ==
    /\ [](BatchDone => ProcessedAll)
    /\ [](~BatchDone => batchSignals = <<>>)
    /\ [](bpc # "idle" => <>BatchDone)

\* an export is over in which a capture failed on an asset that kept its old
\* output and a later asset was rendered
C12_Witness ==
    /\ BatchDone
    /\ \E i \in 1..Len(captureLog) : \E j \in 1..Len(captureLog) :
          /\ i < j
          /\ captureLog[i].end = "failed"
          /\ captureLog[j].end = "rendered"
    /\ \E n \in 1..Len(lists[1]) :
          /\ EntryOf(1, n).end = "failed"
          /\ screenshots[n].renderedUrl = OldUrl

\* the ids of a collection, in list order
Ids(collection) == [n \in 1..Len(collection) |-> collection[n].id]

\* what the export has to go through: every asset with its tab, in export order
Planned ==
    [n \in 1..Len(lists[1]) |-> <<"SCREENSHOTS", lists[1][n].id>>]
    \o [n \in 1..Len(lists[2]) |-> <<"SMALL_TILE", lists[2][n].id>>]
    \o [n \in 1..Len(lists[3]) |-> <<"MARQUEE", lists[3][n].id>>]

\* C13: at most one capture is in flight at any time; captures are taken in the
\* order screenshots, small tiles, marquees and in list order within each; each
\* result holds the assets of its list in the same order, and a rendered
\* output is the picture of its own asset on its own tab.
C13_SequentialInListOrder ==
    /\ inFlight \in {0, 1}
    /\ Len(captureLog) <= Len(Planned)
    /\ \A i \in 1..Len(captureLog) :
          <<captureLog[i].tab, captureLog[i].id>> = Planned[i]
    /\ \A k \in 1..Len(results) :
          /\ Len(results[k]) <= Len(lists[k])
          /\ \A n \in 1..Len(results[k]) :
                /\ results[k][n].id = lists[k][n].id
                /\ EntryOf(k, n).end = "rendered"
                      => results[k][n].renderedUrl = <<"jpeg", Planned[Before(k) + n][1], lists[k][n].id>>
    /\ BatchDone
          => /\ Ids(screenshots) = Ids(lists[1])
             /\ Ids(smallTiles) = Ids(lists[2])
             /\ Ids(marquees) = Ids(lists[3])

\* an export of two screenshots, a small tile and a marquee is over
C13_Witness ==
    /\ BatchDone
    /\ Len(screenshots) = 2
    /\ Len(smallTiles) >= 1
    /\ Len(marquees) = 1
    /\ \A i \in 1..Len(captureLog) : captureLog[i].end = "rendered"

----------------------------------------------------------------------------
(* Claims about the debounced save *)

\* the writes the store took for project id, in order
RECURSIVE WritesOf(_, _)
WritesOf(id, n) ==
    IF n = 0 THEN <<>>
    ELSE IF writes[n].id = id THEN Append(WritesOf(id, n - 1), writes[n].version)
    ELSE WritesOf(id, n - 1)

C15_EveryUpdatePersisted ==
    \A id \in ProjectIds :
        (projects[id] # store[id]) ~> (projects[id] = store[id] \/ storeFailed)

----------------------------------------------------------------------------
(* Claims about the logo variants *)

----------------------------------------------------------------------------
(* Claims about the brand identity *)

\* '#' followed by exactly 6 hex digits
IsSixDigitHex(value) ==
    /\ value # Undefined
    /\ Len(value) = 7
    /\ value[1] = "#"
    /\ \A i \in 2..7 : IsHex(value[i])

\* C17: every color slot of the returned identity is '#' followed by exactly
\* 6 hex digits: a value that is not is replaced by the default of its slot,
\* and a value that is stays.
C17_ColorsAreSixDigitHex ==
    ipc = "returned" =>
        \A slot \in ColorSlots :
            /\ IsSixDigitHex(identityColors[slot])
            /\ identityColors[slot] =
                  IF IsSixDigitHex(OptionalSlot(parsedColors, slot))
                  THEN parsedColors[slot]
                  ELSE SlotDefault(slot)

----------------------------------------------------------------------------
(* Claims about generateImageFromPrompt *)

ImageDone == imgpc \in {"returned", "thrown"}

\* C18: the call fails with 'No image generated' exactly when the remote call
\* succeeded with a response that carries no inline image; when the remote
\* call itself failed, the caller gets that failure, not 'No image generated'.
C18_NoImageOnlyWithoutPayload ==
    /\ imgpc = "thrown" /\ imageError = NoImageGenerated
          => settled.ok /\ FirstInline(settled.resp.parts, 1) = 0
    /\ ImageDone /\ settled.ok /\ FirstInline(settled.resp.parts, 1) = 0
          => imgpc = "thrown" /\ imageError = NoImageGenerated
    /\ ImageDone /\ ~settled.ok
          => imgpc = "thrown" /\ imageError = settled.err.message

----------------------------------------------------------------------------
(* Claims about renderTextContent *)

\* the texts of the spans, joined
RECURSIVE Joined(_, _)
Joined(spans, n) == IF n = 0 THEN <<>> ELSE Joined(spans, n - 1) \o spans[n].text

\* the first position at which t occurs in s, whatever the case
FirstOccurrence(s, t) ==
    CHOOSE i \in 1..(Len(s) + 1) :
        /\ StartsWithAt(ToLowerCase(s), i, ToLowerCase(t))
        /\ \A j \in 1..(i - 1) : ~StartsWithAt(ToLowerCase(s), j, ToLowerCase(t))

\* C19: rendering never throws; when the highlight occurs in the headline,
\* whatever the case, the spans spell the headline and exactly one of them is
\* emphasized, the one that covers the first occurrence of the highlight;
\* when it does not occur the headline is rendered as it is.
C19_HighlightIsFirstOccurrence ==
    /\ rtpc # "thrown"
    /\ rtpc = "rendered" =>
          IF HasHighlight(headline, TrimmedHighlight(highlightText))
          THEN /\ Joined(headlineContent, Len(headlineContent)) = headline
               /\ \E n \in 1..Len(headlineContent) :
                     /\ headlineContent[n].emphasized
                     /\ \A m \in 1..Len(headlineContent) :
                           headlineContent[m].emphasized => m = n
                     /\ Len(headlineContent[n].text) = Len(TrimmedHighlight(highlightText))
                     /\ Len(Joined(headlineContent, n - 1)) + 1
                           = FirstOccurrence(headline, TrimmedHighlight(highlightText))
          ELSE headlineContent = Plain(headline)

----------------------------------------------------------------------------
(* Claims about the exported package *)

\* the files of an archive in a folder whose name starts with stem
FilesOf(files, folder, stem) == {f \in files : f.folder = folder /\ f.stem = stem}

\* an archive has one file for each rendered asset of the list, under the
\* number of the asset, and no other file of that name
HoldsRendered(files, list, folder, stem) ==
    /\ \A i \in 1..Len(list) :
          IF list[i].renderedUrl # NoRender
          THEN \E f \in FilesOf(files, folder, stem) :
                  f.no = i /\ f.content = list[i].renderedUrl
          ELSE \A f \in FilesOf(files, folder, stem) : f.no # i
    /\ Cardinality(FilesOf(files, folder, stem))
          = Cardinality({i \in 1..Len(list) : list[i].renderedUrl # NoRender})

\* C20: a complete package holds one file for each screenshot, small tile and
\* marquee that has a rendered output and none for one that has not, the main
\* icon if there is one, and one file for each resized icon.
C20_PackageHoldsRenderedAssets ==
    \A n \in 1..Len(saved) :
        saved[n].subset = "undefined" =>
            /\ HoldsRendered(saved[n].files, project.screenshots, "screenshots", "screenshot_")
            /\ HoldsRendered(saved[n].files, project.smallTiles, "promo_graphics", "small_promo_")
            /\ HoldsRendered(saved[n].files, project.marquees, "promo_graphics", "marquee_")
            /\ Cardinality(FilesOf(saved[n].files, "icons", "icon_main_1024.png"))
                  = IF FindMain(project.generatedAssets, 1) = 0 THEN 0 ELSE 1
            /\ Cardinality(FilesOf(saved[n].files, "icons", "icon_"))
                  = Cardinality({i \in 1..Len(project.generatedAssets) :
                                    project.generatedAssets[i].usage = "ICON_RESIZED"})

\* the package of a project with 2 rendered screenshots, 1 rendered small
\* tile of two, an unrendered marquee, the main icon and its 4 resized icons
C20_Witness ==
    /\ Len(saved) = 1
    /\ saved[1].subset = "undefined"
    /\ Cardinality(FilesOf(saved[1].files, "screenshots", "screenshot_")) = 2
    /\ Cardinality(FilesOf(saved[1].files, "promo_graphics", "small_promo_")) = 1
    /\ Len(project.smallTiles) = 2
    /\ Cardinality(FilesOf(saved[1].files, "promo_graphics", "marquee_")) = 0
    /\ Len(project.marquees) = 1
    /\ Cardinality(FilesOf(saved[1].files, "icons", "icon_main_1024.png")) = 1
    /\ Cardinality(FilesOf(saved[1].files, "icons", "icon_")) = 4

----------------------------------------------------------------------------
(* Claims about projectService *)

\* C21: after the same saves and deletes, getAllProjects returns the same
\* projects in the same order from the localStorage fallback as from the
\* remote table, the project saved last first.
C21_FallbackListsLikeRemote == GetAllLocal = GetAllRemote

----------------------------------------------------------------------------
(* Claims about the free-text generators *)

\* a text that opens and ends with a code fence
IsFenced(t) ==
    /\ t # Undefined
    /\ Len(t) >= 6
    /\ StartsWithAt(t, 1, Fence)
    /\ StartsWithAt(t, Len(t) - 2, Fence)
\* C22: when the response is wrapped in a code fence, with a language tag or
\* without one, the long description or privacy policy returned holds no fence.
C22_NoFenceReturned ==
    fpc = "returned" /\ IsFenced(responseText) => ~IncludesText(returnedText, Fence)

----------------------------------------------------------------------------
(* Claims about the short description *)

\* C23: the short description confirmed as the project's selection has
\* fewer than 132 characters.
C23_SelectionUnderLimit ==
    sdpc = "confirmed" => selectedShortDescription.text.length < ShortDescriptionLimit

\* C24: the cards are in descending order of score, and the top-pick badge
\* is on the first card exactly when its score is above 90, and on no other.
C24_SortedWithTopPick ==
    /\ \A i, j \in 1..Len(cards) : i < j => cards[i].desc.score >= cards[j].desc.score
    /\ \A i \in 1..Len(cards) :
          cards[i].topPick <=> (i = 1 /\ cards[i].desc.score > TopPickScore)
    /\ descriptions = [i \in 1..Len(cards) |-> cards[i].desc]

\* a response whose third candidate has the highest score
C24_Witness ==
    /\ Len(cards) = 3
    /\ cards[1].desc.text.no = 3
    /\ cards[1].topPick
    /\ cards[2].desc.score > cards[3].desc.score

----------------------------------------------------------------------------
(* Claims about the text of the analysis request *)

\* C25: for an input of more than 25,000 characters the text of the request
\* is its first 25,000 characters followed by the truncation marker; an input
\* of at most 25,000 characters is sent unchanged.
C25_TruncatedToLimit ==
    tpc = "built" =>
        IF Length(input) > MaxInputLength
        THEN /\ Length(truncatedInput) = MaxInputLength + Len(TruncationMarker)
             /\ \A i \in 1..MaxInputLength : CharAt(truncatedInput, i) = CharAt(input, i)
             /\ \A j \in 1..Len(TruncationMarker) :
                   CharAt(truncatedInput, MaxInputLength + j) = TruncationMarker[j]
        ELSE truncatedInput = input

\* an input of 30,000 characters
C25_Witness ==
    /\ tpc = "built"
    /\ Length(input) = 30000
    /\ Length(truncatedInput) = 25014
    /\ truncatedInput # input

\* an input of exactly 25,000 characters
C25_WitnessAtLimit ==
    /\ tpc = "built"
    /\ Length(input) = MaxInputLength
    /\ Len(input) = 2
    /\ truncatedInput = input


----------------------------------------------------------------------------
(* Claims about one call of analyzeProjectInput *)

\* C26: a call of analyzeProjectInput ends, in a return or a throw, and
\* invokes the remote model at most 12 times: 3 attempts of at most 1 + 3
\* invocations each.
C26_TerminatesWithinTwelve ==
    /\ <>(apc \in {"returned", "thrown"})
    /\ [](invocations <= maxAttempts * (1 + DefaultRetries))

\* three attempts of four rate-limited invocations each
C26_Witness ==
    /\ apc = "thrown"
    /\ invocations = 12
    /\ attemptLog = <<"error", "error", "error">>

\* the twelfth invocation answers
C26_WitnessReturned ==
    /\ apc = "returned"
    /\ invocations = 12

----------------------------------------------------------------------------
(* Claims about deleting a project *)

\* C27: a project whose delete the store has executed has no record in the
\* store, whatever saves were pending or in flight when it was deleted.
C27_DeletedStaysDeleted == \A id \in deleted : id \notin DOMAIN persisted

----------------------------------------------------------------------------
(* Claims about the AI copy analysis of the studio *)

\* an asset without the fields the analysis produces
WithoutCopy(asset) ==
    [asset EXCEPT !.headline = <<>>, !.subheadline = <<>>, !.highlightText = <<>>]
AllWithoutCopy ==
    <<[n \in 1..Len(screenshots) |-> WithoutCopy(screenshots[n])],
      [n \in 1..Len(smallTiles) |-> WithoutCopy(smallTiles[n])],
      [n \in 1..Len(marquees) |-> WithoutCopy(marquees[n])]>>

\* C28: the step in which the analysis writes its result changes no field
\* but the headline, subheadline and highlight text: positions, template and
\* content mode keep the values of the latest edit, on every asset.
C28_ResultKeepsEdits ==
    [][(analysisOutcome = "pending" /\ analysisOutcome' = "resolved")
           => AllWithoutCopy' = AllWithoutCopy]_vars

\* the asset of the analysis, as a collection holds it now
ShotIn(collection) ==
    collection[CHOOSE n \in 1..Len(collection) : collection[n].id = shot.id]
\* onStatusChange's argument for a tab
ReportedOf(tab) ==
    IF tab = "SCREENSHOTS" THEN StatusReported.screenshots
    ELSE IF tab = "SMALL_TILE" THEN StatusReported.smallTiles
    ELSE StatusReported.marquees
CopyOf(asset) ==
    [headline |-> asset.headline, subheadline |-> asset.subheadline,
     highlightText |-> asset.highlightText]

\* C30: after a failed analysis the asset has the headline, subheadline and
\* highlight text it had when the analysis started, in the studio and in
\* what the studio reports to the App, and the analyzing flag is cleared.
C30_FailureRestoresCopy ==
    analysisOutcome = "rejected" =>
        /\ ~studioAnalyzing
        /\ CopyOf(ShotIn(CollectionOf(shotTab))) = CopyOf(shot)
        /\ CopyOf(ShotIn(ReportedOf(shotTab))) = CopyOf(shot)

----------------------------------------------------------------------------
(* Claims about the selection of a logo variant *)

\* C29: once no resizing is in flight, the resized icons stored are made
\* from the selected variant, and a set handed to onComplete then has its
\* main icon and its resized icons from the same variant.
C29_ResizedFromSelected ==
    /\ resizes = {} =>
          \A k \in 1..Len(resizedIcons) :
              resizedIcons[k].url = iconVariants[selectedIconIndex + 1]
    /\ handedOver.done /\ handedOver.quiet =>
          \A k \in 1..Len(handedOver.resized) : handedOver.resized[k].url = handedOver.main

============================================================================
